---- MODULE Spec2Model ----
(***************************************************************************)
(* Verification model of the qpdf writer and linearizer.                   *)
(*                                                                         *)
(*   src/unnamed/part_000              QPDFJob::Config + QPDFWriter        *)
(*   src/libqpdf/QPDF_linearization.cc linearization classifier and hints  *)
(*                                                                         *)
(* The module holds several specifications over one set of variables.      *)
(* Each specification drives one component and leaves the variables of     *)
(* the other components at their constructed values.                       *)
(*                                                                         *)
(*   SpecStack   Pl_stack: activate / activate_md5 / pop                   *)
(*   SpecJob     QPDFJob::Config: the encryption and ID options            *)
(*   SpecCfg     the writer's Config setters                               *)
(*   SpecLin     Lin::parts: the split of the objects into parts           *)
(*   SpecWriter  QPDFWriter: ID and encryption setters, then write()       *)
(***************************************************************************)
EXTENDS Integers, Sequences, FiniteSets, TLC

VARIABLES
    \* ---- Pl_stack (part_000:1393-1599) ----
    stack,          \* std::vector<unique_ptr<pl::Count>>: frames [id, count, kind]
    last_id,        \* Pl_stack::last_id
    md5_id,         \* Pl_stack::md5_id
    md5_pipeline,   \* Pl_stack::md5_pipeline: "none" | "on" | "off" (enable(false))
    poppers,        \* the Popper objects alive: slot -> [bound, stack_id] or NoPopper
    stack_err,      \* a qpdf_assert_debug of Pl_stack failed: the process aborted
    \* ---- QPDFJob::Config (part_000:145-175, 1102-1116, 1176-1186) ----
    job,            \* QPDFJob::Members: encrypt, decrypt, copy_encryption, keylen,
                    \*   use_aes and w_cfg.deterministic_id
    enc_open,       \* an EncConfig returned by encrypt() awaits endEncrypt()
    job_calls,      \* the option calls made so far, in order
    job_usage,      \* a usage error was raised by the last option call
    \* ---- qpdf::impl::Writer configuration (part_000:1911-2179) ----
    cfg,            \* Config: the option fields, "permissive" (the constructor
                    \*   argument) and "threw" (a setter left by a usage error)
    \* ---- Linearization (QPDF_linearization.cc:133-350, 1219-1698) ----
    object_to_obj_users_,   \* og -> set of ObjUser ({} when og is not a key);
                            \*   obj_user_to_objects_ is its inverse
    lin_doc,        \* what calculateLinearizationData reads from the document:
                    \*   npages, /Outlines, /PageMode, each page's /Thumb
    lin_pc,         \* "optimized" | "done" | "error"
    lin_parts,      \* part4_, part6_, part7_, part8_, part9_ (object ids in order),
                    \*   c_page_offset_data_ and c_shared_object_data_
    page_offset_hints_, \* HPageOffset as calculateHPageOffset left it
    \* ---- impl::Writer (part_000:2412-2471, 2677-2873, 3334-4568) ----
    qpdf,           \* the input document, as far as the writer reads it
    m,              \* impl::Writer members: id1, id2, encryption, cur_data_key,
                    \*   the pipeline's count, new_obj, ...; err is the message of
                    \*   the exception that left the call
    w_pc,           \* where the writer is: "config" (setters may be called),
                    \*   the steps of write(), "done", "error"
    locals,         \* the locals of writeLinearized that live across its steps
    out,            \* what was emitted to the output: the offset written in
                    \*   each xref entry, the byte count at which each object
                    \*   begins, /L, the /ID array, the counts of each pass
    \* ---- what a write reads besides the input (part_000:1844-1896, 3450-3451) ----
    env,            \* QUtil::get_current_time() and Members::filename
    earlier,        \* an earlier write of the same input that completed: its
                    \*   env, its Config and what it emitted (done = FALSE: none)
    \* ---- impl::Writer::unparseObject (part_000:2883-3200) ----
    heap,           \* the dictionaries and arrays of the input that unparseObject
                    \*   reaches, by name; a handle is the name of its object
    emitted,        \* what unparseObject wrote: dictionaries, strings, streams
    pipe            \* will_filter_stream: the attempts made to pipe the data of
                    \*   a stream, its warnings, and how it ended

stackVars == <<stack, last_id, md5_id, md5_pipeline, poppers, stack_err>>

jobVars == <<job, enc_open, job_calls, job_usage>>

cfgVars == <<cfg>>

linVars == <<object_to_obj_users_, lin_doc, lin_pc, lin_parts, page_offset_hints_>>

writerVars == <<qpdf, m, w_pc, locals, out>>

envVars == <<env, earlier>>

unparseVars == <<heap, emitted, pipe>>

vars == <<stackVars, jobVars, cfgVars, linVars, writerVars, envVars, unparseVars>>

----------------------------------------------------------------------------
(***************************************************************************)
(* Bounds                                                                  *)
(***************************************************************************)
MaxPoppers == 2     \* Popper objects that exist at one time
MaxFrameId == 4     \* cap on Pl_stack::last_id
MaxStackBytes == 1  \* bytes written through the stack in SpecStack
MaxJobCalls == 5    \* QPDFJob::Config option calls in one run
MaxPages == 3       \* pages of the document handed to the linearizer
MaxFreeObjs == 2    \* objects besides the catalog, the pages tree and the pages
MaxUsersPerObj == 2 \* users of one such object
MaxWriterPages == 2 \* pages of the document handed to the writer
MaxTime == 2        \* wall-clock times a write can start at
MaxFilters == 2     \* names in the /Filter array of a stream dictionary

----------------------------------------------------------------------------
(***************************************************************************)
(* Pl_stack                                                                *)
(***************************************************************************)
NoPopper == [bound |-> FALSE, stack_id |-> 0, live |-> FALSE]

PopperSlots == 1..MaxPoppers

\* kinds of pl::Count frame built by Pl_stack::activate
\*   "bottom"  initialize(p)
\*   "chain"   next != nullptr         Count(id, count_buffer, next)
\*   "discard" discard                 Count(id, nullptr)
\*   "pass"    neither                 Count(id, top): forwards to the old top
\*   "str"     str != nullptr          Count(id, *str)
\*   "md5"     activate_md5            Count(id, md5_pipeline) -> old top
Frame(id, kind) == [id |-> id, count |-> 0, kind |-> kind]

Top(stk) == stk[Len(stk)]

\* pl::Count::write: the frame counts the bytes and forwards them to its next
\* pipeline; "pass" and "md5" frames forward to the frame below.
RECURSIVE CountWrite(_, _, _)
CountWrite(stk, i, n) ==
    IF i = 0 THEN stk
    ELSE LET s1 == [stk EXCEPT ![i].count = @ + n]
         IN  IF stk[i].kind \in {"pass", "md5"}
                THEN CountWrite(s1, i - 1, n)
                ELSE s1

\* spec-modelled: qpdf_assert_debug(cond) is fatal when cond is false
qpdf_assert_debug(cond) == cond

\* Pl_stack::activate(Popper& pp, bool discard, std::string* str, unique_ptr next)
ActivateFrame(p, kind) ==
    /\ ~stack_err
    /\ UNCHANGED <<jobVars, cfgVars, linVars, writerVars, envVars, unparseVars>>
    /\ poppers[p].live /\ poppers[p].bound
    /\ last_id < MaxFrameId
    /\ last_id' = last_id + 1
    /\ poppers' = [poppers EXCEPT ![p].stack_id = last_id + 1]
    /\ stack' = Append(stack, Frame(last_id + 1, kind))
    /\ UNCHANGED <<md5_id, md5_pipeline, stack_err>>

\* Pl_stack::popper()
NewPopper(p) ==
    /\ ~stack_err
    /\ UNCHANGED <<jobVars, cfgVars, linVars, writerVars, envVars, unparseVars>>
    /\ ~poppers[p].live
    /\ poppers' = [poppers EXCEPT ![p] = [bound |-> TRUE, stack_id |-> 0, live |-> TRUE]]
    /\ UNCHANGED <<stack, last_id, md5_id, md5_pipeline, stack_err>>

\* Pl_stack::activate_md5(Popper& pp)
ActivateMd5(p) ==
    /\ ~stack_err
    /\ UNCHANGED <<jobVars, cfgVars, linVars, writerVars, envVars, unparseVars>>
    /\ poppers[p].live /\ poppers[p].bound
    /\ last_id < MaxFrameId
    /\ IF /\ qpdf_assert_debug(md5_pipeline = "none")
          /\ qpdf_assert_debug(md5_id = 0)
          /\ qpdf_assert_debug(Top(stack).count = 0)
       THEN /\ md5_pipeline' = "on"
            /\ last_id' = last_id + 1
            /\ poppers' = [poppers EXCEPT ![p].stack_id = last_id + 1]
            /\ md5_id' = last_id + 1
            /\ stack' = Append(stack, Frame(last_id + 1, "md5"))
            /\ UNCHANGED stack_err
       ELSE /\ stack_err' = TRUE
            /\ UNCHANGED <<stack, last_id, md5_id, md5_pipeline, poppers>>

\* Pl_stack::hex_digest
HexDigest ==
    /\ ~stack_err
    /\ UNCHANGED <<jobVars, cfgVars, linVars, writerVars, envVars, unparseVars>>
    /\ IF qpdf_assert_debug(md5_pipeline # "none")
       THEN /\ md5_pipeline' = "off"
            /\ UNCHANGED stack_err
       ELSE /\ stack_err' = TRUE
            /\ UNCHANGED md5_pipeline
    /\ UNCHANGED <<stack, last_id, md5_id, poppers>>

\* Pl_stack::pop without the test that stack_id is the id of the top frame
PopOutcome_NoIdCheck(stk, sid) ==
    IF sid = 0 THEN "noop"
    ELSE IF ~qpdf_assert_debug(Len(stk) >= 2) THEN "abort"
    ELSE "pop"

\* Pl_stack::pop(stack_id): the outcome on the stack.
\*   "noop"  stack_id == 0
\*   "abort" one of the assertions failed
\*   "pop"   the top frame is finished and removed
PopOutcome(stk, sid) ==
    IF sid = 0 THEN "noop"
    ELSE IF ~qpdf_assert_debug(Len(stk) >= 2) THEN "abort"
    ELSE IF ~qpdf_assert_debug(Top(stk).id = sid) THEN "abort"
    ELSE "pop"

\* the common part of Popper::pop() and Popper::~Popper(): stack->pop(stack_id)
StackPop(sid) ==
    LET outcome == PopOutcome(stack, sid) IN
    /\ stack_err' = (outcome = "abort")
    /\ stack' = IF outcome = "pop" THEN SubSeq(stack, 1, Len(stack) - 1) ELSE stack
    /\ md5_pipeline' = IF outcome = "pop" /\ sid = md5_id THEN "none" ELSE md5_pipeline
    /\ md5_id' = IF outcome = "pop" /\ sid = md5_id THEN 0 ELSE md5_id
    /\ UNCHANGED last_id

\* Pl_stack::Popper::pop()
PopperPop(p) ==
    /\ ~stack_err
    /\ UNCHANGED <<jobVars, cfgVars, linVars, writerVars, envVars, unparseVars>>
    /\ poppers[p].live
    /\ IF poppers[p].bound
       THEN StackPop(poppers[p].stack_id)
       ELSE UNCHANGED <<stack, last_id, md5_id, md5_pipeline, stack_err>>
    /\ poppers' = [poppers EXCEPT ![p] = [bound |-> FALSE, stack_id |-> 0, live |-> TRUE]]

\* Pl_stack::Popper::~Popper()
PopperDestroy(p) ==
    /\ ~stack_err
    /\ UNCHANGED <<jobVars, cfgVars, linVars, writerVars, envVars, unparseVars>>
    /\ poppers[p].live
    /\ IF poppers[p].bound
       THEN StackPop(poppers[p].stack_id)
       ELSE UNCHANGED <<stack, last_id, md5_id, md5_pipeline, stack_err>>
    /\ poppers' = [poppers EXCEPT ![p] = NoPopper]

\* Popper(Popper&& other): q is constructed from p
PopperMove(p, q) ==
    /\ ~stack_err
    /\ UNCHANGED <<jobVars, cfgVars, linVars, writerVars, envVars, unparseVars>>
    /\ p # q
    /\ poppers[p].live /\ ~poppers[q].live
    /\ poppers' = [poppers EXCEPT ![q] = poppers[p],
                                  ![p] = [bound |-> FALSE, stack_id |-> 0, live |-> TRUE]]
    /\ UNCHANGED <<stack, last_id, md5_id, md5_pipeline, stack_err>>

\* a write through the top of the stack (Writer::write -> pipeline->write)
StackWrite ==
    /\ ~stack_err
    /\ UNCHANGED <<jobVars, cfgVars, linVars, writerVars, envVars, unparseVars>>
    /\ Top(stack).count < MaxStackBytes
    /\ stack' = CountWrite(stack, Len(stack), 1)
    /\ UNCHANGED <<last_id, md5_id, md5_pipeline, poppers, stack_err>>

\* Pl_stack::Pl_stack + initialize
StackConstructed ==
    /\ stack = <<Frame(1, "bottom")>>
    /\ last_id = 1
    /\ md5_id = 0
    /\ md5_pipeline = "none"
    /\ poppers = [p \in PopperSlots |-> NoPopper]
    /\ stack_err = FALSE

----------------------------------------------------------------------------
(***************************************************************************)
(* QPDFJob::Config: the options that touch encryption and the /ID          *)
(***************************************************************************)
\* QPDFJob::Members as constructed
JobDefaults ==
    [encrypt |-> FALSE, decrypt |-> FALSE, copy_encryption |-> FALSE,
     keylen |-> 0, use_aes |-> FALSE, deterministic_id |-> FALSE]

JobConstructed ==
    /\ job = JobDefaults
    /\ enc_open = FALSE
    /\ job_calls = <<>>
    /\ job_usage = FALSE

\* usage(msg): the call is abandoned with a usage error, its assignments
\* are not made
JobUsage(call) ==
    /\ job_usage' = TRUE
    /\ job_calls' = Append(job_calls, call)
    /\ UNCHANGED <<job, enc_open>>

\* an option call may be made: no usage error ended the configuration
JobCallable ==
    /\ ~job_usage
    /\ Len(job_calls) < MaxJobCalls

\* QPDFJob::Config::copyEncryption
copyEncryption ==
    /\ JobCallable
    /\ UNCHANGED <<stackVars, cfgVars, linVars, writerVars, envVars, unparseVars>>
    /\ IF job.deterministic_id
       THEN JobUsage("copyEncryption")
       ELSE /\ job' = [job EXCEPT !.copy_encryption = TRUE,
                                  !.encrypt = FALSE,
                                  !.decrypt = FALSE]
            /\ job_calls' = Append(job_calls, "copyEncryption")
            /\ UNCHANGED <<enc_open, job_usage>>

\* QPDFJob::Config::decrypt
decrypt ==
    /\ JobCallable
    /\ UNCHANGED <<stackVars, cfgVars, linVars, writerVars, envVars, unparseVars>>
    /\ job' = [job EXCEPT !.decrypt = TRUE,
                          !.encrypt = FALSE,
                          !.copy_encryption = FALSE]
    /\ job_calls' = Append(job_calls, "decrypt")
    /\ UNCHANGED <<enc_open, job_usage>>

\* QPDFJob::Config::deterministicId
deterministicId ==
    /\ JobCallable
    /\ UNCHANGED <<stackVars, cfgVars, linVars, writerVars, envVars, unparseVars>>
    /\ IF job.encrypt \/ job.copy_encryption
       THEN JobUsage("deterministicId")
       ELSE /\ job' = [job EXCEPT !.deterministic_id = TRUE]
            /\ job_calls' = Append(job_calls, "deterministicId")
            /\ UNCHANGED <<enc_open, job_usage>>

\* QPDFJob::Config::encrypt(keylen, user_password, owner_password)
encrypt(keylen) ==
    /\ JobCallable
    /\ UNCHANGED <<stackVars, cfgVars, linVars, writerVars, envVars, unparseVars>>
    /\ IF job.deterministic_id
       THEN JobUsage("encrypt")
       ELSE /\ job' = [job EXCEPT !.keylen = keylen,
                                  !.use_aes = IF keylen = 256 THEN TRUE ELSE @]
            /\ enc_open' = TRUE
            /\ job_calls' = Append(job_calls, "encrypt")
            /\ UNCHANGED job_usage

\* QPDFJob::EncConfig::endEncrypt
endEncrypt ==
    /\ JobCallable
    /\ enc_open
    /\ UNCHANGED <<stackVars, cfgVars, linVars, writerVars, envVars, unparseVars>>
    /\ IF job.keylen = 0
       THEN JobUsage("endEncrypt")
       ELSE /\ job' = [job EXCEPT !.encrypt = TRUE,
                                  !.decrypt = FALSE,
                                  !.copy_encryption = FALSE]
            /\ enc_open' = FALSE
            /\ job_calls' = Append(job_calls, "endEncrypt")
            /\ UNCHANGED job_usage

----------------------------------------------------------------------------
(***************************************************************************)
(* Config: the writer's option record and its setters                      *)
(***************************************************************************)
\* qpdf_stream_decode_level_e in increasing order
DecodeLevels == <<"none", "generalized", "specialized", "all">>

DecodeLevelRank(l) == CHOOSE i \in DOMAIN DecodeLevels : DecodeLevels[i] = l

\* std::max over qpdf_stream_decode_level_e
MaxDecodeLevel(a, b) == IF DecodeLevelRank(a) >= DecodeLevelRank(b) THEN a ELSE b

\* a Config as constructed; permissive is the constructor's argument
ConfigDefaults(permissive) ==
    [permissive |-> permissive, threw |-> FALSE,
     qdf |-> FALSE, linearize |-> FALSE, pclm |-> FALSE,
     compress_streams |-> TRUE, compress_streams_set |-> FALSE,
     decode_level |-> "generalized", decode_level_set |-> FALSE,
     normalize_content |-> FALSE, normalize_content_set |-> FALSE,
     preserve_encryption |-> TRUE, direct_stream_lengths |-> TRUE,
     static_id |-> FALSE, deterministic_id |-> FALSE, encrypt_use_aes |-> FALSE,
     object_streams |-> "qpdf_o_preserve", preserve_unreferenced |-> FALSE,
     forced_pdf_version |-> <<>>, forced_extension_level |-> 0]

\* Config::usage(msg): a usage error leaves the setter, except in a
\* permissive Config, where usage returns to the setter
usage(c) == IF c.permissive THEN c ELSE [c EXCEPT !.threw = TRUE]

\* Config::compress_streams
compress_streams(c, val) ==
    IF c.pclm
    THEN usage(c)
    ELSE [c EXCEPT !.compress_streams_set = TRUE, !.compress_streams = val]

\* Config::decode_level
decode_level(c, val) ==
    IF c.pclm
    THEN usage(c)
    ELSE [c EXCEPT !.decode_level_set = TRUE, !.decode_level = val]

\* Config::stream_data
stream_data(c, mode) ==
    LET level == IF mode = "preserve"
                 THEN "none"
                 ELSE MaxDecodeLevel("generalized", c.decode_level)
        c1 == decode_level(c, level)
    IN  IF c1.threw THEN c1 ELSE compress_streams(c1, mode = "compress")

\* Config::normalize_content
normalize_content(c, val) ==
    [c EXCEPT !.normalize_content_set = TRUE, !.normalize_content = val]

\* Config::qdf without its tests of compress_streams_set_ and
\* decode_level_set_
qdf_Overrides(c, val) ==
    LET c0 == IF c.pclm \/ c.linearize THEN usage(c) ELSE c
        c1 == IF ~c0.threw /\ c0.preserve_encryption THEN usage(c0) ELSE c0
        c2 == [c1 EXCEPT !.qdf = val]
        c3 == IF ~c2.normalize_content_set THEN normalize_content(c2, TRUE) ELSE c2
        c4 == IF ~c3.threw THEN compress_streams(c3, FALSE) ELSE c3
        c5 == IF ~c4.threw THEN decode_level(c4, "generalized") ELSE c4
    IN  IF c1.threw THEN c1
        ELSE IF ~val THEN c2
        ELSE IF c5.threw THEN c5
        ELSE [c5 EXCEPT !.preserve_encryption = FALSE,
                        !.direct_stream_lengths = FALSE]

\* Config::qdf
qdf(c, val) ==
    LET c0 == IF c.pclm \/ c.linearize THEN usage(c) ELSE c
        c1 == IF ~c0.threw /\ c0.preserve_encryption THEN usage(c0) ELSE c0
        c2 == [c1 EXCEPT !.qdf = val]
        c3 == IF ~c2.normalize_content_set THEN normalize_content(c2, TRUE) ELSE c2
        c4 == IF ~c3.threw /\ ~c3.compress_streams_set
              THEN compress_streams(c3, FALSE) ELSE c3
        c5 == IF ~c4.threw /\ ~c4.decode_level_set
              THEN decode_level(c4, "generalized") ELSE c4
    IN  IF c1.threw THEN c1
        ELSE IF ~val THEN c2
        ELSE IF c5.threw THEN c5
        ELSE [c5 EXCEPT !.preserve_encryption = FALSE,
                        !.direct_stream_lengths = FALSE]

\* Config::linearize
linearize(c, val) ==
    IF c.pclm \/ c.qdf
    THEN usage(c)
    ELSE [c EXCEPT !.linearize = val]

\* Config::pclm
pclm(c, val) ==
    IF c.decode_level_set \/ c.compress_streams_set \/ c.linearize
    THEN usage(c)
    ELSE IF val
         THEN [c EXCEPT !.pclm = val, !.decode_level = "none",
                        !.compress_streams = FALSE, !.linearize = FALSE]
         ELSE [c EXCEPT !.pclm = val]

\* Config::preserve_encryption
preserve_encryption(c, val) == [c EXCEPT !.preserve_encryption = val]

\* Config::static_id
static_id(c, val) == [c EXCEPT !.static_id = val]

\* Config::deterministic_id
deterministic_id(c, val) == [c EXCEPT !.deterministic_id = val]

\* Config::encrypt_use_aes
encrypt_use_aes(c, val) == [c EXCEPT !.encrypt_use_aes = val]

\* Config::object_streams
object_streams(c, val) == [c EXCEPT !.object_streams = val]

\* Config::preserve_unreferenced
preserve_unreferenced(c, val) == [c EXCEPT !.preserve_unreferenced = val]

\* impl::Writer::Writer: cfg(true)
CfgConstructed == cfg = ConfigDefaults(TRUE)

\* QPDFWriter::setStreamDataMode
setStreamDataMode(mode) ==
    /\ ~cfg.threw
    /\ cfg' = stream_data(cfg, mode)
    /\ UNCHANGED <<stackVars, jobVars, linVars, writerVars, envVars, unparseVars>>

\* QPDFWriter::setCompressStreams
setCompressStreams(val) ==
    /\ ~cfg.threw
    /\ cfg' = compress_streams(cfg, val)
    /\ UNCHANGED <<stackVars, jobVars, linVars, writerVars, envVars, unparseVars>>

\* QPDFWriter::setDecodeLevel
setDecodeLevel(val) ==
    /\ ~cfg.threw
    /\ cfg' = decode_level(cfg, val)
    /\ UNCHANGED <<stackVars, jobVars, linVars, writerVars, envVars, unparseVars>>

\* QPDFWriter::setQDFMode
setQDFMode(val) ==
    /\ ~cfg.threw
    /\ cfg' = qdf(cfg, val)
    /\ UNCHANGED <<stackVars, jobVars, linVars, writerVars, envVars, unparseVars>>

\* QPDFWriter::setPreserveEncryption
setPreserveEncryption(val) ==
    /\ ~cfg.threw
    /\ cfg' = preserve_encryption(cfg, val)
    /\ UNCHANGED <<stackVars, jobVars, linVars, writerVars, envVars, unparseVars>>

\* QPDFWriter::setLinearization
setLinearization(val) ==
    /\ ~cfg.threw
    /\ cfg' = linearize(cfg, val)
    /\ UNCHANGED <<stackVars, jobVars, linVars, writerVars, envVars, unparseVars>>

\* QPDFWriter::setPCLm
setPCLm(val) ==
    /\ ~cfg.threw
    /\ cfg' = pclm(cfg, val)
    /\ UNCHANGED <<stackVars, jobVars, linVars, writerVars, envVars, unparseVars>>

----------------------------------------------------------------------------
(***************************************************************************)
(* Linearization: the classifier of calculateLinearizationData             *)
(***************************************************************************)
\* Lin::ObjUser
ObjUser(type, pageno, key) == [ou_type |-> type, pageno |-> pageno, key |-> key]

ou_root == ObjUser("ou_root", 0, "")

ou_page(n) == ObjUser("ou_page", n, "")

ou_thumb(n) == ObjUser("ou_thumb", n, "")

ou_root_key(k) == ObjUser("ou_root_key", 0, k)

ou_trailer_key(k) == ObjUser("ou_trailer_key", 0, k)

\* the objects of the document: the catalog, the root of the pages tree, one
\* page object per page (pages are numbered from 0) and the remaining objects
RootObj == 1

PagesObj == 2

PageObj(i) == 3 + i

FreeObjs == (3 + MaxPages)..(2 + MaxPages + MaxFreeObjs)

LinObjs == 1..(2 + MaxPages + MaxFreeObjs)

\* QPDFObjGen(0, 0): a direct object
DirectOg == 0

\* obj_user_to_objects_[ou]
obj_user_to_objects_(ou) == {og \in LinObjs : ou \in object_to_obj_users_[og]}

\* the keys of object_to_obj_users_
LinKeys == {og \in LinObjs : object_to_obj_users_[og] # {}}

\* iteration over a std::set<QPDFObjGen>: ascending order
RECURSIVE SetToSeq(_)
SetToSeq(S) ==
    IF S = {} THEN <<>>
    ELSE LET least == CHOOSE x \in S : \A y \in S : x <= y
         IN  <<least>> \o SetToSeq(S \ {least})

open_document_keys ==
    {"/ViewerPreferences", "/PageMode", "/Threads", "/OpenAction", "/AcroForm"}

\* the flags and counters of the classification loop over one user set
is_root(ous) == \E ou \in ous : ou.ou_type = "ou_root"

in_outlines(ous) ==
    \E ou \in ous : ou.ou_type = "ou_root_key" /\ ou.key = "/Outlines"

in_open_document(ous) ==
    \E ou \in ous :
        \/ ou.ou_type = "ou_trailer_key" /\ ou.key = "/Encrypt"
        \/ ou.ou_type = "ou_root_key" /\ ou.key \in open_document_keys

in_first_page(ous) == \E ou \in ous : ou.ou_type = "ou_page" /\ ou.pageno = 0

other_pages(ous) ==
    Cardinality({ou \in ous : ou.ou_type = "ou_page" /\ ou.pageno # 0})

thumbs(ous) == Cardinality({ou \in ous : ou.ou_type = "ou_thumb"})

others(ous) ==
    Cardinality({ou \in ous :
        \/ ou.ou_type = "ou_trailer_key" /\ ou.key # "/Encrypt"
        \/ /\ ou.ou_type = "ou_root_key"
           /\ ou.key \notin open_document_keys
           /\ ou.key # "/Outlines"})

\* the if / else-if chain that picks the lc_ set of an object
Classify(ous) ==
    IF is_root(ous) THEN "lc_root"
    ELSE IF in_outlines(ous) THEN "lc_outlines"
    ELSE IF in_open_document(ous) THEN "lc_open_document"
    ELSE IF in_first_page(ous) /\ others(ous) = 0 /\ other_pages(ous) = 0
            /\ thumbs(ous) = 0 THEN "lc_first_page_private"
    ELSE IF in_first_page(ous) THEN "lc_first_page_shared"
    ELSE IF other_pages(ous) = 1 /\ others(ous) = 0 /\ thumbs(ous) = 0
         THEN "lc_other_page_private"
    ELSE IF other_pages(ous) > 1 THEN "lc_other_page_shared"
    ELSE IF thumbs(ous) = 1 /\ others(ous) = 0 THEN "lc_thumbnail_private"
    ELSE IF thumbs(ous) > 1 THEN "lc_thumbnail_shared"
    ELSE "lc_other"

\* the lc_ set named c after the classification loop
lc(c) == {og \in LinKeys : Classify(object_to_obj_users_[og]) = c}

\* Lin::pushOutlinesToPart: the objects appended to the part
pushOutlinesToPart(lc_outlines) ==
    IF lin_doc.outlines_null THEN <<>>
    ELSE (IF lin_doc.outlines_og \in lc_outlines
             THEN <<lin_doc.outlines_og>> ELSE <<>>)
         \o SetToSeq(lc_outlines \ {lin_doc.outlines_og})

\* the loop "for each page in order" that builds part 7, from page i on;
\* rem is lc_other_page_private, part the objects placed so far, nobjects
\* the c_page_offset_data_.entries.at(j).nobjects of the pages 1 to i - 1
RECURSIVE Part7Loop(_, _, _, _)
Part7Loop(i, rem, part, nobjects) ==
    IF i >= lin_doc.npages
    THEN [err |-> "", rem |-> rem, part |-> part, nobjects |-> nobjects]
    ELSE IF PageObj(i) \notin rem
         THEN [err |-> "unable to linearize page", rem |-> rem, part |-> part,
               nobjects |-> nobjects]
    ELSE IF obj_user_to_objects_(ou_page(i)) = {}
         THEN [err |-> "found unreferenced page", rem |-> rem, part |-> part,
               nobjects |-> nobjects]
    ELSE LET rem1 == rem \ {PageObj(i)}
             mine == obj_user_to_objects_(ou_page(i)) \cap rem1
         IN  Part7Loop(i + 1, rem1 \ mine,
                       part \o <<PageObj(i)>> \o SetToSeq(mine),
                       nobjects \o <<1 + Cardinality(mine)>>)

\* the loop that places the private thumbnails in page order, from page i on;
\* rem is lc_thumbnail_private
RECURSIVE ThumbLoop(_, _, _)
ThumbLoop(i, rem, part) ==
    IF i >= lin_doc.npages THEN [rem |-> rem, part |-> part]
    ELSE LET t == lin_doc.thumb[i + 1]
             erased == t.og \in rem
             rem1 == rem \ {t.og}
             mine == obj_user_to_objects_(ou_thumb(i)) \cap rem1
         IN  ThumbLoop(i + 1, rem1 \ mine,
                       part \o (IF erased /\ ~t.null THEN <<t.og>> ELSE <<>>)
                            \o SetToSeq(mine))

NoParts == [part4 |-> <<>>, part6 |-> <<>>, part7 |-> <<>>, part8 |-> <<>>,
            part9 |-> <<>>, c_page_offset_data_ |-> <<>>,
            c_shared_object_data_ |-> [nshared_first_page |-> 0, nshared_total |-> 0,
                                       entries |-> <<>>]]

LinError(msg) == [err |-> msg, parts |-> NoParts]

\* "Make sure we got everything exactly once", with the test dropped
wrong_number_placed_Unchecked(num_placed, num_wanted) == FALSE

\* "Make sure we got everything exactly once": num_placed != num_wanted
wrong_number_placed(num_placed, num_wanted) == num_placed # num_wanted

\* Lin::calculateLinearizationData: the parts, or the error that ends it
calculateLinearizationData ==
    LET lc_root == lc("lc_root")
        lc_first_page_private == lc("lc_first_page_private")
        lc_other == lc("lc_other")
        part4 == SetToSeq(lc_root) \o SetToSeq(lc("lc_open_document"))
        first_page_og == PageObj(0)
        part6 == <<first_page_og>>
                 \o SetToSeq(lc_first_page_private \ {first_page_og})
                 \o SetToSeq(lc("lc_first_page_shared"))
                 \o (IF lin_doc.outlines_in_first_page
                        THEN pushOutlinesToPart(lc("lc_outlines")) ELSE <<>>)
        p7 == Part7Loop(1, lc("lc_other_page_private"), <<>>, <<>>)
        part8 == SetToSeq(lc("lc_other_page_shared"))
        pages_ogs == obj_user_to_objects_(ou_root_key("/Pages"))
        tree == pages_ogs \cap lc_other
        th == ThumbLoop(0, lc("lc_thumbnail_private"), <<>>)
        part9 == SetToSeq(tree)
                 \o th.part
                 \o SetToSeq(lc("lc_thumbnail_shared"))
                 \o (IF ~lin_doc.outlines_in_first_page
                        THEN pushOutlinesToPart(lc("lc_outlines")) ELSE <<>>)
                 \o SetToSeq(lc_other \ tree)
        num_placed == Len(part4) + Len(part6) + Len(p7.part) + Len(part8) + Len(part9)
        num_wanted == Cardinality(LinKeys)
        \* the shared object hint table: part 6, then part 8; obj_to_index
        \* maps an object of it to its index, from 0
        shared == part6 \o part8
        obj_to_index(og) == (CHOOSE k \in DOMAIN shared : shared[k] = og) - 1
        \* the shared objects of page i, i >= 1, in the order of
        \* obj_user_to_objects_[ou]
        shared_identifiers(i) ==
            LET is_shared(og) ==
                    /\ Cardinality(object_to_obj_users_[og]) > 1
                    /\ \E k \in DOMAIN shared : shared[k] = og
                ogs == SelectSeq(SetToSeq(obj_user_to_objects_(ou_page(i))), is_shared)
            IN  [k \in DOMAIN ogs |-> obj_to_index(ogs[k])]
        c_page_offset_data_ ==
            [j \in 1..lin_doc.npages |->
                IF j = 1
                THEN [nobjects |-> Len(part6), nshared_objects |-> 0,
                      shared_identifiers |-> <<>>]
                ELSE [nobjects |-> p7.nobjects[j - 1],
                      nshared_objects |-> Len(shared_identifiers(j - 1)),
                      shared_identifiers |-> shared_identifiers(j - 1)]]
    IN  IF LinKeys = {} THEN LinError("called before optimize()")
        ELSE IF Cardinality(lc_root) # 1 THEN LinError("found other than one root")
        ELSE IF lin_doc.npages = 0 THEN LinError("no pages found")
        ELSE IF first_page_og \notin lc_first_page_private
             THEN LinError("unable to linearize first page")
        ELSE IF p7.err # "" THEN LinError(p7.err)
        ELSE IF p7.rem # {} THEN LinError("lc_other_page_private is not empty")
        ELSE IF pages_ogs = {} THEN LinError("found empty pages tree")
        ELSE IF th.rem # {} THEN LinError("lc_thumbnail_private not empty")
        ELSE IF wrong_number_placed(num_placed, num_wanted)
             THEN LinError("wrong number of objects placed")
        ELSE [err |-> "",
              parts |-> [part4 |-> part4, part6 |-> part6, part7 |-> p7.part,
                         part8 |-> part8, part9 |-> part9,
                         c_page_offset_data_ |-> c_page_offset_data_,
                         c_shared_object_data_ |->
                             [nshared_first_page |-> Len(part6),
                              nshared_total |-> Len(part6) + Len(part8),
                              entries |-> shared]]]

\* Lin::parts: calculateLinearizationData(obj), then the parts are handed out
parts ==
    /\ lin_pc = "optimized"
    /\ LET r == calculateLinearizationData
       IN  /\ lin_pc' = IF r.err = "" THEN "done" ELSE "error"
           /\ lin_parts' = r.parts
    /\ UNCHANGED <<object_to_obj_users_, lin_doc, page_offset_hints_>>
    /\ UNCHANGED <<stackVars, jobVars, cfgVars, writerVars, envVars, unparseVars>>

\* HPageOffset before calculateHPageOffset
NoHints == [min_nobjects |-> 0, min_page_length |-> 0, entries |-> <<>>]

\* no document was handed to the linearizer
LinConstructed ==
    /\ object_to_obj_users_ = [og \in LinObjs |-> {}]
    /\ lin_doc = [npages |-> 0, outlines_null |-> TRUE, outlines_og |-> DirectOg,
                  outlines_in_first_page |-> FALSE, thumb |-> <<>>]
    /\ lin_pc = "idle"
    /\ lin_parts = NoParts
    /\ page_offset_hints_ = NoHints

\* the user sets one object besides the catalog, the pages tree and the
\* pages can have: none (no such object) up to MaxUsersPerObj users
FreeUserSets(np) ==
    LET users ==
            {ou_root_key("/Outlines"), ou_root_key("/OpenAction"), ou_root_key("/Pages"),
             ou_trailer_key("/Encrypt"), ou_trailer_key("/Info")}
            \cup {ou_page(i) : i \in 0..(np - 1)}
            \cup {ou_thumb(i) : i \in 0..(np - 1)}
    IN  {S \in SUBSET users : Cardinality(S) <= MaxUsersPerObj}

\* Lin::optimize_internal has run on a document of np pages: the catalog is
\* used by ou_root, the pages tree by the root key /Pages, page i by
\* ou_page(i); the other objects by what reaches them
Optimized(np, free) ==
    [og \in LinObjs |->
        IF og = RootObj THEN {ou_root}
        ELSE IF og = PagesObj THEN {ou_root_key("/Pages")}
        ELSE IF og \in FreeObjs THEN free[og]
        ELSE IF og - 3 < np THEN {ou_page(og - 3)}
        ELSE {}]

\* the /Thumb of page i as calculateLinearizationData finds it: no /Thumb
\* (a direct null), or an object that optimize saw as used by ou_thumb(i),
\* which may have become null since
ThumbChoices(users, i) ==
    {[og |-> DirectOg, null |-> TRUE]}
    \cup {[og |-> og, null |-> n] :
            og \in {o \in LinObjs : ou_thumb(i) \in users[o]}, n \in BOOLEAN}

----------------------------------------------------------------------------
(***************************************************************************)
(* QPDFWriter: the /ID array and the encryption parameters                 *)
(***************************************************************************)
\* a byte string: a tag that names its content, and its length in bytes
Str(v, len) == [v |-> v, len |-> len]

EmptyStr == Str("", 0)

\* generateID: static unsigned char tmp[]
tmp == <<49, 65, 89, 38, 83, 88, 151, 147, 35, 132, 98, 100, 51, 131, 39, 149, 0>>

\* std::string(char*): the bytes before the first 0 byte
RECURSIVE strlen(_, _)
strlen(s, i) == IF i > Len(s) \/ s[i] = 0 THEN 0 ELSE 1 + strlen(s, i + 1)

\* generateID: result, with static_id
StaticId == Str("static", strlen(tmp, 1))

\* generateID: result, the MD5 digest of the seed, sizeof(MD5::Digest) = 16
\* bytes
Md5(seed) == Str(seed, 16)

\* generateID: seed, for a trailer without /Info: the digest of the output,
\* or the time and the file name
Seed(deterministic, data) ==
    IF deterministic
    THEN data.v \o " QPDF "
    ELSE ToString(env.time) \o env.filename \o " " \o " QPDF "

\* unique_ptr<Encryption>: V = 0 stands for nullptr
NoEncryption == [V |-> 0, R |-> 0, key_len |-> 0, id1 |-> EmptyStr]

\* Encryption::Encryption
Encryption(V, R, key_len, id1) == [V |-> V, R |-> R, key_len |-> key_len, id1 |-> id1]

\* the /Encrypt dictionary of a trailer: V = 0 when the trailer has none
NoEncrypt == [V |-> 0, R |-> 0, Length |-> 0]

\* What the writer reads of a QPDF's trailer: /ID (has_id) and the string
\* value of its first element, /Encrypt, and one direct string held under a
\* key of its own (trailer_str: its length, 0 when there is none; rc4_hex:
\* whether QPDF_String::unparse() writes the RC4 output of it in hex).
\* an entry of the xref table of a document with what the writer asks of
\* the object: type 0 is no such object, 1 an uncompressed object, 2 an
\* object in the object stream `stream`
XRefEntry(type, stream, gen, is_stream) ==
    [type |-> type, stream |-> stream, gen |-> gen, is_stream |-> is_stream]

\* the page dictionaries of a document of npages pages
all_pages(npages) == {PageObj(i) : i \in 0..(npages - 1)}

\* a document without object streams: its xref table holds the catalog, the
\* pages tree and the pages.  compressible: the objects that Doc::Objects
\* lets into an object stream; nulls: the indirect nulls made by
\* newIndirectNull
Document(npages, has_id, id0, enc, trailer_str, rc4_hex) ==
    [npages |-> npages, has_id |-> has_id, id0 |-> id0, encrypt |-> enc,
     trailer_str |-> trailer_str, rc4_hex |-> rc4_hex,
     xref |-> [og \in LinObjs |->
                  IF og \in {RootObj, PagesObj} \cup all_pages(npages)
                  THEN XRefEntry(1, 0, 0, FALSE)
                  ELSE XRefEntry(0, 0, 0, FALSE)],
     compressible |-> {}, nulls |-> 0]

\* a document of one page without /ID, /Encrypt and strings in its trailer
PlainDocument == Document(1, FALSE, EmptyStr, NoEncrypt, 0, FALSE)

\* the documents given to the QPDFWriter constructor; an encrypted document
\* carries an /ID
InputDocs ==
    {Document(d.npages, d.has_id, d.id0, d.encrypt, d.trailer_str, d.rc4_hex) :
        d \in {e \in [npages : 1..MaxWriterPages, has_id : BOOLEAN,
                      id0 : {EmptyStr, Str("input", 16)},
                      encrypt : {NoEncrypt, [V |-> 4, R |-> 4, Length |-> 128]},
                      trailer_str : {0, 5}, rc4_hex : BOOLEAN] :
                  /\ ~e.has_id => (e.id0 = EmptyStr /\ e.encrypt.V = 0)
                  /\ e.trailer_str = 0 => ~e.rc4_hex}}

\* the documents handed to copyEncryptionParameters
OtherDocs ==
    {Document(1, TRUE, Str("other", 20), [V |-> 2, R |-> 3, Length |-> 128], 0, FALSE),
     PlainDocument}

\* new object ids: the objects of the document, the linearization
\* dictionary, the encryption dictionary and the hint stream
ObjIds == 1..(2 + MaxPages + MaxFreeObjs + 3)

\* ObjTable::streams_empty as constructed
streams_empty_default == FALSE

\* impl::Writer as constructed.  renumber, object_stream and gen are the
\* fields of the entries of obj; object_stream_to_objects maps the old id
\* of an object stream to its members.  generated_static, copied and
\* copied_id0 are history: whether static_id was set when generateID built
\* the ID, whether copyEncryptionParameters took the encryption of a
\* document, the first element of the /ID of the last such document, and
\* the keys of the trailer dictionaries written so far.
Members ==
    [err |-> "", id1 |-> EmptyStr, id2 |-> EmptyStr,
     deterministic_id_data |-> EmptyStr,
     encryption |-> NoEncryption, encryption_dict_objid |-> 0,
     cur_data_key |-> 0, next_objid |-> 1, count |-> 0,
     new_obj |-> [i \in ObjIds |-> 0],
     renumber |-> [og \in LinObjs |-> 0],
     object_stream |-> [og \in LinObjs |-> 0],
     gen |-> [og \in LinObjs |-> 0],
     streams_empty |-> streams_empty_default,
     object_stream_to_objects |-> <<>>,
     object_queue |-> <<>>, object_queue_front |-> 0,
     generated_static |-> FALSE, copied |-> FALSE, copied_id0 |-> EmptyStr,
     trailers |-> {}, cfm |-> ""]

\* an exception leaves the call
Throw(w, msg) == [w EXCEPT !.err = msg]

\* impl::Writer::getOriginalID1, result ignored
getOriginalID1_Dropped == EmptyStr

\* impl::Writer::getOriginalID1
getOriginalID1 == IF qpdf.has_id THEN qpdf.id0 ELSE EmptyStr

\* impl::Writer::generateID, the static branch taken for no configuration
generateID_NeverStatic(c, w, encrypted) ==
    IF w.id2 # EmptyStr THEN w
    ELSE IF c.deterministic_id /\ encrypted
    THEN Throw(w, "runtime_error: unable to generated a deterministic ID because the file to be written is encrypted")
    ELSE IF c.deterministic_id /\ w.deterministic_id_data = EmptyStr
    THEN Throw(w, "logic_error: QPDFWriter::generateID has no data for deterministic ID")
    ELSE LET result == Md5(Seed(c.deterministic_id, w.deterministic_id_data))
             original == getOriginalID1
         IN  [w EXCEPT !.id2 = result,
                       !.id1 = IF original = EmptyStr THEN result ELSE original,
                       !.generated_static = c.static_id]

\* impl::Writer::generateID, the time and the file name seeded whatever
\* deterministic_id is
generateID_SeedsTime(c, w, encrypted) ==
    IF w.id2 # EmptyStr THEN w
    ELSE IF ~c.static_id /\ c.deterministic_id /\ encrypted
    THEN Throw(w, "runtime_error: unable to generated a deterministic ID because the file to be written is encrypted")
    ELSE IF ~c.static_id /\ c.deterministic_id /\ w.deterministic_id_data = EmptyStr
    THEN Throw(w, "logic_error: QPDFWriter::generateID has no data for deterministic ID")
    ELSE LET result == IF c.static_id THEN StaticId
                       ELSE Md5(Seed(FALSE, w.deterministic_id_data))
             original == getOriginalID1
         IN  [w EXCEPT !.id2 = result,
                       !.id1 = IF original = EmptyStr THEN result ELSE original,
                       !.generated_static = c.static_id]

\* impl::Writer::generateID
generateID(c, w, encrypted) ==
    IF w.id2 # EmptyStr THEN w
    ELSE IF ~c.static_id /\ c.deterministic_id /\ encrypted
    THEN Throw(w, "runtime_error: unable to generated a deterministic ID because the file to be written is encrypted")
    ELSE IF ~c.static_id /\ c.deterministic_id /\ w.deterministic_id_data = EmptyStr
    THEN Throw(w, "logic_error: QPDFWriter::generateID has no data for deterministic ID")
    ELSE LET result == IF c.static_id THEN StaticId
                       ELSE Md5(Seed(c.deterministic_id, w.deterministic_id_data))
             original == getOriginalID1
         IN  [w EXCEPT !.id2 = result,
                       !.id1 = IF original = EmptyStr THEN result ELSE original,
                       !.generated_static = c.static_id]

\* Pl_stack::hex_digest: the hex digest of the bytes written since
\* activate_md5, which are told apart by their number
hex_digest(w) == Str("md5 of " \o ToString(w.count) \o " bytes", 32)

\* impl::Writer::computeDeterministicIDData without its test of id2
computeDeterministicIDData_Unchecked(w) ==
    IF w.deterministic_id_data # EmptyStr
    THEN Throw(w, "abort: qpdf_assert_debug(deterministic_id_data.empty())")
    ELSE [w EXCEPT !.deterministic_id_data = hex_digest(w)]

\* impl::Writer::computeDeterministicIDData
computeDeterministicIDData(w) ==
    IF w.id2 # EmptyStr
    THEN Throw(w, "logic_error: Deterministic ID computation enabled after ID generation has already occurred.")
    ELSE IF w.deterministic_id_data # EmptyStr
    THEN Throw(w, "abort: qpdf_assert_debug(deterministic_id_data.empty())")
    ELSE [w EXCEPT !.deterministic_id_data = hex_digest(w)]

\* impl::Writer::setEncryptionParameters
setEncryptionParameters(c, w) ==
    LET w1 == generateID(c, w, TRUE)
    IN  IF w1.err # "" THEN w1
        ELSE [w1 EXCEPT !.encryption.id1 = w1.id1]

\* impl::Writer::copyEncryptionParameters with encrypt_use_aes left as it
\* was
copyEncryptionParameters_KeepsMethod(c, w, q) ==
    LET c1 == preserve_encryption(c, FALSE)
        w1 == generateID(c1, w, TRUE)
        id == q.id0
        V == q.encrypt.V
        key_len == IF V > 1 THEN q.encrypt.Length \div 8 ELSE 5
    IN  IF q.encrypt.V = 0 THEN [cfg |-> c1, m |-> w]
        ELSE IF w1.err # "" THEN [cfg |-> c1, m |-> w1]
        ELSE [cfg |-> c1,
              m |-> [w1 EXCEPT !.id1 = id,
                               !.encryption = Encryption(V, q.encrypt.R, key_len, id),
                               !.copied = TRUE,
                               !.copied_id0 = id]]

\* impl::Writer::copyEncryptionParameters: the Config and the members after it
copyEncryptionParameters(c, w, q) ==
    LET c1 == preserve_encryption(c, FALSE)
        w1 == generateID(c1, w, TRUE)
        id == q.id0
        V == q.encrypt.V
        key_len == IF V > 1 THEN q.encrypt.Length \div 8 ELSE 5
        c2 == IF V >= 4 THEN encrypt_use_aes(c1, TRUE) ELSE c1
    IN  IF q.encrypt.V = 0 THEN [cfg |-> c1, m |-> w]
        ELSE IF w1.err # "" THEN [cfg |-> c1, m |-> w1]
        ELSE [cfg |-> c2,
              m |-> [w1 EXCEPT !.id1 = id,
                               !.encryption = Encryption(V, q.encrypt.R, key_len, id),
                               !.copied = TRUE,
                               !.copied_id0 = id]]

----------------------------------------------------------------------------
(***************************************************************************)
(* QPDFWriter: the bytes of write().  An operator that writes takes the    *)
(* members and returns them with the pipeline's count advanced by the      *)
(* bytes written; what the bytes are is kept only where another step       *)
(* reads it back.                                                          *)
(***************************************************************************)
\* std::to_string(val).size() for val >= 0
RECURSIVE Digits(_)
Digits(val) == IF val < 10 THEN 1 ELSE 1 + Digits(val \div 10)

\* impl::Writer::write(std::string_view): n bytes
Write(w, n) == [w EXCEPT !.count = @ + n]

\* QPDF_String(str).unparse(true) of n bytes: "<", two digits a byte, ">"
HexLen(n) == 2 * n + 2

\* QPDF_String::unparse() of n printable bytes: "(", the bytes, ")"
LiteralLen(n) == n + 2

\* the bytes AES turns n bytes into: the length of adjustAESStreamLength
AESLength(n) == n + 32 - (n % 16)

\* impl::Writer::openObject
openObject(w, objid) ==
    LET id == IF objid = 0 THEN w.next_objid ELSE objid
        w1 == IF objid = 0 THEN [w EXCEPT !.next_objid = @ + 1] ELSE w
    IN  [id |-> id,
         m |-> Write([w1 EXCEPT !.new_obj[id] = w1.count],
                     Digits(id) + Len(" 0 obj\n"))]

\* impl::Writer::closeObject
closeObject(w) == Write(w, Len("\nendobj\n"))

\* impl::Writer::setDataKey: the key of object objid
setDataKey(w, objid) ==
    IF w.encryption.V # 0 THEN [w EXCEPT !.cur_data_key = objid] ELSE w

\* adjustAESStreamLength without the test of cur_data_key
adjustAESStreamLength_AnyKey(c, w, length) ==
    IF w.encryption.V # 0 /\ c.encrypt_use_aes
    THEN length + 32 - (length % 16)
    ELSE length

\* impl::Writer::adjustAESStreamLength
adjustAESStreamLength(c, w, length) ==
    IF w.encryption.V # 0 /\ w.cur_data_key # 0 /\ c.encrypt_use_aes
    THEN length + 32 - (length % 16)
    ELSE length

\* impl::Writer::write_encrypted: the bytes written for n bytes of data
write_encrypted(c, w, n) ==
    IF ~(w.encryption.V # 0 /\ w.cur_data_key # 0) THEN n
    ELSE IF c.encrypt_use_aes THEN AESLength(n)
    ELSE n

\* impl::Writer::unparseObject, ot_string, flags = 0: the bytes written for
\* the direct string of the trailer
unparseString(c, w) ==
    IF w.encryption.V # 0 /\ w.cur_data_key # 0
    THEN IF c.encrypt_use_aes
         THEN HexLen(AESLength(qpdf.trailer_str))
         ELSE IF qpdf.rc4_hex THEN HexLen(qpdf.trailer_str)
         ELSE LiteralLen(qpdf.trailer_str)
    ELSE LiteralLen(qpdf.trailer_str)

\* impl::Writer::unparseObject(object, 0, 0) for the object og of the input:
\* the bytes between "obj" and "endobj", the same whenever og is written
unparseObject(og) == 20 + 7 * og

\* impl::Writer::writeObject of an object that is not in an object stream
writeObject(w, og) ==
    LET new_id == w.renumber[og]
        w1 == setDataKey(openObject(w, new_id).m, new_id)
        w2 == Write(w1, unparseObject(og))
    IN  closeObject([w2 EXCEPT !.cur_data_key = 0])

\* the sizes of the Encryption's /O and /U, /OE and /UE, and /Perms strings
EncStrLen(V, key) ==
    IF key \in {"/O", "/U"} THEN (IF V < 5 THEN 32 ELSE 48)
    ELSE IF V < 5 THEN 0
    ELSE IF key = "/Perms" THEN 16 ELSE 32

\* impl::Writer::writeEncryptionDictionary
writeEncryptionDictionary(c, w) ==
    LET o == openObject(w, w.encryption_dict_objid)
        V == w.encryption.V
        cf == Len(" /CF << /StdCF << /AuthEvent /DocOpen /CFM ")
              + (IF c.encrypt_use_aes THEN Len("/AESV2") ELSE Len("/V2"))
              + Len(" /Length 16 >> >>")
        dict == Len("<<")
                + (IF V >= 4 THEN cf ELSE 0)
                + Len(" /Filter /Standard /Length ") + Digits(w.encryption.key_len * 8)
                + Len(" /O ") + HexLen(EncStrLen(V, "/O"))
                + (IF V >= 4 THEN Len(" /OE ") + HexLen(EncStrLen(V, "/OE")) ELSE 0)
                + Len(" /P ") + Len("-4")
                + (IF V >= 5 THEN Len(" /Perms ") + HexLen(EncStrLen(V, "/Perms")) ELSE 0)
                + Len(" /R ") + Digits(w.encryption.R)
                + (IF V >= 4 THEN Len(" /StmF /StdCF /StrF /StdCF") ELSE 0)
                + Len(" /U ") + HexLen(EncStrLen(V, "/U"))
                + (IF V >= 4 THEN Len(" /UE ") + HexLen(EncStrLen(V, "/UE")) ELSE 0)
                + Len(" /V ") + Digits(V) + Len(" >>")
        \* the crypt filter method written, "" when there is no crypt filter
        method == IF V < 4 THEN ""
                  ELSE IF c.encrypt_use_aes
                  THEN (IF V < 5 THEN "/AESV2" ELSE "/AESV3")
                  ELSE "/V2"
    IN  closeObject(Write([o.m EXCEPT !.encryption_dict_objid = o.id,
                                      !.cfm = method], dict))

\* impl::Writer::writeHeader: "%PDF-", a version such as 1.7, a newline, "%",
\* four bytes above 127 and a newline
writeHeader(w) == Write(w, Len("%PDF-") + Len("1.7") + Len("\n%") + 4 + Len("\n"))

\* impl::Writer::writeTrailer with /Encrypt in the main trailer of a
\* linearized file as well
writeTrailer_EncryptInMain(c, w, which, size, xref_stream, prev, linearization_pass) ==
    LET original_id1 == getOriginalID1
        placeholder == (IF original_id1 = EmptyStr
                        THEN Len("<00000000000000000000000000000000>")
                        ELSE Len("<") + (HexLen(original_id1.len) - 2) + Len(">"))
                       + Len("<00000000000000000000000000000000>")
        \* the keys before /ID
        keys(w0) ==
            IF which = "t_lin_second"
            THEN Len(" /Size ") + Digits(size)
            ELSE (IF qpdf.trailer_str = 0 THEN 0
                  ELSE Len(" /Note ") + unparseString(c, w0))
                 + Len(" /Root ") + Digits(w0.renumber[RootObj]) + Len(" 0 R")
                 + Len(" /Size ") + Digits(size)
                 + (IF which = "t_lin_first" THEN Len(" /Prev ") + 21 ELSE 0)
        \* after the /ID: "]", /Encrypt and the end of the dictionary
        written(w4) ==
            [which |-> which, xref_stream |-> xref_stream,
             linearization_pass |-> linearization_pass,
             encrypted |-> w4.encryption.V # 0,
             cur_data_key |-> w4.cur_data_key,
             Size |-> size, ID |-> 2,
             keys |-> {"/Size", "/ID"}
                      \cup (IF which = "t_lin_second" THEN {}
                            ELSE {"/Root"}
                                 \cup (IF qpdf.trailer_str = 0 THEN {} ELSE {"/Note"})
                                 \cup (IF which = "t_lin_first" THEN {"/Prev"} ELSE {}))
                      \cup (IF w4.encryption.V # 0
                            THEN {"/Encrypt"} ELSE {})]
        close(w4) ==
            IF w4.err # "" THEN w4
            ELSE Write([w4 EXCEPT !.trailers = @ \cup {written(w4)}],
                       Len("]")
                       + (IF w4.encryption.V # 0
                          THEN Len(" /Encrypt ") + Digits(w4.encryption_dict_objid)
                               + Len(" 0 R")
                          ELSE 0)
                       + Len(" >>"))
        \* the two strings of the /ID
        ids(w3) ==
            IF w3.err # "" THEN w3
            ELSE Write(w3, HexLen(w3.id1.len) + HexLen(w3.id2.len))
        generate(w2) ==
            IF w2.err # "" THEN w2 ELSE generateID(c, w2, w2.encryption.V # 0)
        \* the /ID: a placeholder in pass 1 of a linearized file
        id(w1) ==
            IF linearization_pass = 1 THEN Write(w1, placeholder)
            ELSE ids(generate(IF linearization_pass = 0 /\ c.deterministic_id
                              THEN computeDeterministicIDData(w1) ELSE w1))
        open(w0) == id(Write(w0, keys(w0) + Len(" /ID [")))
    IN  close(open(IF xref_stream THEN [w EXCEPT !.cur_data_key = 0]
                   ELSE Write(w, Len("trailer <<"))))

\* impl::Writer::writeTrailer.  The trimmed trailer holds /Root, /Size and
\* the direct string, if any, under /Note.
writeTrailer(c, w, which, size, xref_stream, prev, linearization_pass) ==
    LET original_id1 == getOriginalID1
        placeholder == (IF original_id1 = EmptyStr
                        THEN Len("<00000000000000000000000000000000>")
                        ELSE Len("<") + (HexLen(original_id1.len) - 2) + Len(">"))
                       + Len("<00000000000000000000000000000000>")
        \* the keys before /ID
        keys(w0) ==
            IF which = "t_lin_second"
            THEN Len(" /Size ") + Digits(size)
            ELSE (IF qpdf.trailer_str = 0 THEN 0
                  ELSE Len(" /Note ") + unparseString(c, w0))
                 + Len(" /Root ") + Digits(w0.renumber[RootObj]) + Len(" 0 R")
                 + Len(" /Size ") + Digits(size)
                 + (IF which = "t_lin_first" THEN Len(" /Prev ") + 21 ELSE 0)
        \* after the /ID: "]", /Encrypt and the end of the dictionary
        written(w4) ==
            [which |-> which, xref_stream |-> xref_stream,
             linearization_pass |-> linearization_pass,
             encrypted |-> w4.encryption.V # 0,
             cur_data_key |-> w4.cur_data_key,
             Size |-> size, ID |-> 2,
             keys |-> {"/Size", "/ID"}
                      \cup (IF which = "t_lin_second" THEN {}
                            ELSE {"/Root"}
                                 \cup (IF qpdf.trailer_str = 0 THEN {} ELSE {"/Note"})
                                 \cup (IF which = "t_lin_first" THEN {"/Prev"} ELSE {}))
                      \cup (IF which # "t_lin_second" /\ w4.encryption.V # 0
                            THEN {"/Encrypt"} ELSE {})]
        close(w4) ==
            IF w4.err # "" THEN w4
            ELSE Write([w4 EXCEPT !.trailers = @ \cup {written(w4)}],
                       Len("]")
                       + (IF which # "t_lin_second" /\ w4.encryption.V # 0
                          THEN Len(" /Encrypt ") + Digits(w4.encryption_dict_objid)
                               + Len(" 0 R")
                          ELSE 0)
                       + Len(" >>"))
        \* the two strings of the /ID
        ids(w3) ==
            IF w3.err # "" THEN w3
            ELSE Write(w3, HexLen(w3.id1.len) + HexLen(w3.id2.len))
        generate(w2) ==
            IF w2.err # "" THEN w2 ELSE generateID(c, w2, w2.encryption.V # 0)
        \* the /ID: a placeholder in pass 1 of a linearized file
        id(w1) ==
            IF linearization_pass = 1 THEN Write(w1, placeholder)
            ELSE ids(generate(IF linearization_pass = 0 /\ c.deterministic_id
                              THEN computeDeterministicIDData(w1) ELSE w1))
        open(w0) == id(Write(w0, keys(w0) + Len(" /ID [")))
    IN  close(open(IF xref_stream THEN [w EXCEPT !.cur_data_key = 0]
                   ELSE Write(w, Len("trailer <<"))))

\* impl::Writer::writeXRefTable: the members after it, the offsets written
\* in the entries of first..last, and space_before_zero
writeXRefTable(c, w, which, first, last, size, prev, suppress_offsets, hint_id, hint_offset, hint_length, linearization_pass) ==
    LET first1 == IF first = 0 THEN first + 1 ELSE first
        offset(i) ==
            IF suppress_offsets THEN 0
            ELSE IF hint_id # 0 /\ i # hint_id /\ w.new_obj[i] >= hint_offset
            THEN w.new_obj[i] + hint_length
            ELSE w.new_obj[i]
        result(w1, w3) ==
            [m |-> IF w3.err # "" THEN w3 ELSE Write(w3, Len("\n")),
             entries |-> [i \in first1..last |-> offset(i)],
             space_before_zero |-> w1.count]
        \* w1: after the subsection header; then the entries and the trailer
        table(w1) ==
            result(w1,
                   writeTrailer(c,
                                Write(w1, Len("\n")
                                          + (IF first = 0 THEN Len("0000000000 65535 f \n") ELSE 0)
                                          + (last - first1 + 1) * (10 + Len(" 00000 n \n"))),
                                which, size, FALSE, prev, linearization_pass))
    IN  table(Write(w, Len("xref\n") + Digits(first) + Len(" ")
                       + Digits(last - first + 1)))

\* impl::Writer::writeXRefStream: the members after it.  deflate is what
\* Pl_Flate adds to the bytes it is given (less than 0: it removes them)
writeXRefStream(c, w, xref_id, max_id, max_offset, which, first, last, size, prev, hint_length, skip_compression, linearization_pass, deflate) ==
    LET bytesNeeded(n) ==
            IF n = 0 THEN 0 ELSE IF n < 256 THEN 1 ELSE IF n < 65536 THEN 2
            ELSE IF n < 16777216 THEN 3 ELSE 4
        max_ostream_index == 1
        f1 == bytesNeeded(max_offset + hint_length)
        f1_size == IF f1 > bytesNeeded(max_id) THEN f1 ELSE bytesNeeded(max_id)
        f2_size == bytesNeeded(max_ostream_index)
        esize == 1 + f1_size + f2_size
        entries == last - first + 1
        compressed == c.compress_streams /\ ~c.qdf
        \* Pl_PNGFilter, a_encode: one byte more in each row
        png == entries * (esize + 1)
        xref_data == IF ~compressed THEN entries * esize
                     ELSE IF skip_compression THEN png
                     ELSE IF png + deflate < 0 THEN 0 ELSE png + deflate
        dict == Len("<<") + Len(" /Type /XRef") + Len(" /Length ") + Digits(xref_data)
                + (IF compressed
                   THEN Len(" /Filter /FlateDecode") + Len(" /DecodeParms << /Columns ")
                        + Digits(esize) + Len(" /Predictor 12 >>")
                   ELSE 0)
                + Len(" /W [ 1 ") + Digits(f1_size) + Len(" ") + Digits(f2_size) + Len(" ]")
                + (IF ~(first = 0 /\ last = size - 1)
                   THEN Len(" /Index [ ") + Digits(first) + Len(" ") + Digits(entries)
                        + Len(" ]")
                   ELSE 0)
        stream(w3) ==
            IF w3.err # "" THEN w3
            ELSE closeObject(Write(w3, Len("\nstream\n") + xref_data + Len("\nendstream")))
    IN  stream(writeTrailer(c, Write(openObject(w, xref_id).m, dict),
                            which, size, TRUE, prev, linearization_pass))

\* Lin::generateHintStream as writeHintStream reads it: the size of the
\* buffer, S, O, and whether the buffer ends with a newline
generateHintStream == [size |-> 33, S |-> 21, O |-> 0, newline |-> FALSE]

\* impl::Writer::writeHintStream
writeHintStream(c, w, hint_id) ==
    LET h == generateHintStream
        w1 == setDataKey(openObject(w, hint_id).m, hint_id)
        hlen == adjustAESStreamLength(c, w1, h.size)
        dict == Len("<< ")
                + (IF c.compress_streams THEN Len("/Filter /FlateDecode ") ELSE 0)
                + Len("/S ") + Digits(h.S)
                + (IF h.O # 0 THEN Len(" /O ") + Digits(h.O) ELSE 0)
                + Len(" /Length ") + Digits(hlen)
        w2 == Write(w1, dict + Len(" >>\nstream\n") + write_encrypted(c, w1, h.size))
        w3 == Write(w2, IF h.size = 0 \/ ~h.newline
                        THEN Len("\nendstream") ELSE Len("endstream"))
    IN  closeObject(w3)

----------------------------------------------------------------------------
(***************************************************************************)
(* QPDFWriter: the setters of the ID and the encryption, and write() in    *)
(* its steps.  The documents written have no object streams and            *)
(* object_streams is left at preserve, so the cross-reference sections are *)
(* tables; qdf and pclm are left unset.                                    *)
(***************************************************************************)
\* the locals of writeLinearized before it runs; k is the position of the
\* loop over object_queue
NoLocals ==
    [pass |-> 0, k |-> 0, lindict_id |-> 0, hint_id |-> 0,
     first_half_start |-> 0, first_half_end |-> 0, first_trailer_size |-> 0,
     second_half_end |-> 0, second_trailer_size |-> 0,
     part4_end_marker |-> 0, part6_end_marker |-> 0,
     space_before_zero |-> 0, file_size |-> 0, part6_end_offset |-> 0,
     second_xref_offset |-> 0, first_xref_offset |-> 0, hint_length |-> 0,
     xref_end |-> 0, endpos |-> 0]

\* nothing was emitted.  xref[n]: the offset in the emitted entry of object
\* n; obj_begin[n]: the count of the output at which "n 0 obj" begins; L:
\* the /L written; id: the /ID array written; startxref[p], bytes[p]: the
\* count of pass p at the startxref that ends the file, and at its end
\* (p = 2 is the output; a Standard write is recorded as pass 2);
\* ostreams: the object streams written, each with its members in order
NoOutput ==
    [xref |-> [i \in ObjIds |-> -1], obj_begin |-> [i \in ObjIds |-> -1],
     L |-> -1, id |-> <<EmptyStr, EmptyStr>>,
     startxref |-> <<-1, -1>>, bytes |-> <<-1, -1>>, ostreams |-> {}]

\* the writer was constructed and nothing was called yet
WriterConstructed ==
    /\ m = Members
    /\ w_pc = "config"
    /\ locals = NoLocals
    /\ out = NoOutput
    /\ earlier = [done |-> FALSE]

\* unparseObject was not called and reaches no object
NothingUnparsed ==
    /\ heap = <<>>
    /\ emitted = {}
    /\ pipe = <<>>

\* the pc after a setter or a step of write(): next, or "error" when an
\* exception left the call, which ends the use of the writer
Step(w, next) == IF w.err # "" THEN "error" ELSE next

\* QPDFWriter::setStaticID
setStaticID(val) ==
    /\ w_pc = "config"
    /\ cfg' = static_id(cfg, val)
    /\ UNCHANGED <<writerVars, linVars, stackVars, jobVars, envVars, unparseVars>>

\* QPDFWriter::setDeterministicID
setDeterministicID(val) ==
    /\ w_pc = "config"
    /\ cfg' = deterministic_id(cfg, val)
    /\ UNCHANGED <<writerVars, linVars, stackVars, jobVars, envVars, unparseVars>>

\* QPDFWriter::setR2EncryptionParametersInsecure
setR2EncryptionParametersInsecure ==
    /\ w_pc = "config"
    /\ m' = setEncryptionParameters(
                cfg, [m EXCEPT !.encryption = Encryption(1, 2, 5, EmptyStr)])
    /\ w_pc' = Step(m', "config")
    /\ UNCHANGED <<cfg, qpdf, locals, out, linVars, stackVars, jobVars, envVars, unparseVars>>

\* QPDFWriter::setR3EncryptionParametersInsecure
setR3EncryptionParametersInsecure ==
    /\ w_pc = "config"
    /\ m' = setEncryptionParameters(
                cfg, [m EXCEPT !.encryption = Encryption(2, 3, 16, EmptyStr)])
    /\ w_pc' = Step(m', "config")
    /\ UNCHANGED <<cfg, qpdf, locals, out, linVars, stackVars, jobVars, envVars, unparseVars>>

\* QPDFWriter::setR4EncryptionParametersInsecure
setR4EncryptionParametersInsecure(use_aes) ==
    /\ w_pc = "config"
    /\ cfg' = encrypt_use_aes(cfg, use_aes)
    /\ m' = setEncryptionParameters(
                cfg', [m EXCEPT !.encryption = Encryption(4, 4, 16, EmptyStr)])
    /\ w_pc' = Step(m', "config")
    /\ UNCHANGED <<qpdf, locals, out, linVars, stackVars, jobVars, envVars, unparseVars>>

\* QPDFWriter::setR5EncryptionParameters
setR5EncryptionParameters ==
    /\ w_pc = "config"
    /\ cfg' = encrypt_use_aes(cfg, TRUE)
    /\ m' = setEncryptionParameters(
                cfg', [m EXCEPT !.encryption = Encryption(5, 5, 32, EmptyStr)])
    /\ w_pc' = Step(m', "config")
    /\ UNCHANGED <<qpdf, locals, out, linVars, stackVars, jobVars, envVars, unparseVars>>

\* QPDFWriter::setR6EncryptionParameters
setR6EncryptionParameters ==
    /\ w_pc = "config"
    /\ cfg' = encrypt_use_aes(cfg, TRUE)
    /\ m' = setEncryptionParameters(
                cfg', [m EXCEPT !.encryption = Encryption(5, 6, 32, EmptyStr)])
    /\ w_pc' = Step(m', "config")
    /\ UNCHANGED <<qpdf, locals, out, linVars, stackVars, jobVars, envVars, unparseVars>>

\* QPDFWriter::copyEncryptionParameters
QPDFWriter_copyEncryptionParameters(q) ==
    /\ w_pc = "config"
    /\ LET r == copyEncryptionParameters(cfg, m, q)
       IN  /\ cfg' = r.cfg
           /\ m' = r.m
           /\ w_pc' = Step(r.m, "config")
    /\ UNCHANGED <<qpdf, locals, out, linVars, stackVars, jobVars, envVars, unparseVars>>

\* QPDFWriter::forcePDFVersion
forcePDFVersion(version, extension_level) ==
    /\ w_pc = "config"
    /\ cfg' = [cfg EXCEPT !.forced_pdf_version = version,
                          !.forced_extension_level = extension_level]
    /\ UNCHANGED <<writerVars, linVars, stackVars, jobVars, envVars, unparseVars>>

\* QPDFWriter::setObjectStreamMode
setObjectStreamMode(mode) ==
    /\ w_pc = "config"
    /\ cfg' = object_streams(cfg, mode)
    /\ UNCHANGED <<writerVars, linVars, stackVars, jobVars, envVars, unparseVars>>

\* QPDFWriter::setPreserveUnreferencedObjects
setPreserveUnreferencedObjects(val) ==
    /\ w_pc = "config"
    /\ cfg' = preserve_unreferenced(cfg, val)
    /\ UNCHANGED <<writerVars, linVars, stackVars, jobVars, envVars, unparseVars>>

\* Doc::Objects::compressible_set: the ids of the objects that may go into
\* an object stream
compressible_set(q) == q.compressible

\* Doc::Objects::compressible_vector: the same objects as QPDFObjGen
compressible_vector(q) ==
    LET ids == SetToSeq(q.compressible)
    IN  [k \in DOMAIN ids |-> [obj |-> ids[k], gen |-> q.xref[ids[k]].gen]]

\* QPDF::newIndirectNull: the id of the object it makes
newIndirectNull(q) == 2 + MaxPages + MaxFreeObjs + q.nulls + 1

\* impl::Writer::preserveObjectStreams
preserveObjectStreams(c, w, q) ==
    LET type2 == {og \in LinObjs : q.xref[og].type = 2}
        eligible == compressible_set(q)
    IN  [w EXCEPT !.streams_empty = (type2 = {}),
                  !.object_stream =
                      [og \in LinObjs |->
                          IF /\ og \in type2
                             /\ (c.preserve_unreferenced \/ og \in eligible)
                          THEN q.xref[og].stream
                          ELSE w.object_stream[og]]]

\* impl::Writer::generateObjectStreams: the members and the document after it
generateObjectStreams(w, q) ==
    LET eligible == compressible_vector(q)
        n_object_streams == (Len(eligible) + 99) \div 100
        per == IF n_object_streams = 0 THEN 0
               ELSE Len(eligible) \div n_object_streams
        n_per == IF per * n_object_streams < Len(eligible) THEN per + 1 ELSE per
        cur_ostream(k) == newIndirectNull(q) + ((k - 1) \div n_per)
        item(og) == {k \in DOMAIN eligible : eligible[k].obj = og}
    IN  IF n_object_streams = 0
        THEN [m |-> [w EXCEPT !.streams_empty = TRUE], qpdf |-> q]
        ELSE [m |-> [w EXCEPT
                        !.object_stream =
                            [og \in LinObjs |->
                                IF item(og) # {}
                                THEN cur_ostream(CHOOSE k \in item(og) : TRUE)
                                ELSE w.object_stream[og]],
                        !.gen =
                            [og \in LinObjs |->
                                IF item(og) # {}
                                THEN eligible[CHOOSE k \in item(og) : TRUE].gen
                                ELSE w.gen[og]]],
              qpdf |-> [q EXCEPT !.nulls = @ + 1 + ((Len(eligible) - 1) \div n_per)]]

\* impl::Writer::doWriteSetup, the catalog left in its object stream when
\* the output is encrypted and not linearized
doWriteSetup_root_LinearizedOnly(c, w) ==
    IF c.linearize
    THEN [w EXCEPT !.object_stream[RootObj] = IF @ > 0 THEN 0 ELSE @]
    ELSE w

\* impl::Writer::doWriteSetup: the document catalog is not a compressed
\* object of a linearized or an encrypted file
doWriteSetup_root(c, w) ==
    IF c.linearize \/ w.encryption.V # 0
    THEN [w EXCEPT !.object_stream[RootObj] = IF @ > 0 THEN 0 ELSE @]
    ELSE w

\* impl::Writer::parseVersion: major and minor of a version, which is the
\* sequence of its characters.  QUtil::string_to_int reads the digits the
\* text begins with
parseVersion(version) ==
    LET digit == [ch \in {"0", "1", "2", "3", "4", "5", "6", "7", "8", "9"} |->
                     CASE ch = "0" -> 0 [] ch = "1" -> 1 [] ch = "2" -> 2
                       [] ch = "3" -> 3 [] ch = "4" -> 4 [] ch = "5" -> 5
                       [] ch = "6" -> 6 [] ch = "7" -> 7 [] ch = "8" -> 8
                       [] ch = "9" -> 9]
        \* the digits from position p on, and then the number they spell
        stop(str, p) ==
            IF \E k \in p..Len(str) : str[k] \notin DOMAIN digit
            THEN CHOOSE k \in p..Len(str) :
                     /\ str[k] \notin DOMAIN digit
                     /\ \A j \in p..(k - 1) : str[j] \in DOMAIN digit
            ELSE Len(str) + 1
        int[k \in 0..Len(version)] ==
            [from \in 1..(Len(version) + 1) |->
                IF k < from THEN 0 ELSE 10 * int[k - 1][from] + digit[version[k]]]
        string_to_int(p) == int[stop(version, p) - 1][p]
        find == IF \E k \in DOMAIN version : version[k] = "."
                THEN CHOOSE k \in DOMAIN version :
                         /\ version[k] = "."
                         /\ \A j \in 1..(k - 1) : version[j] # "."
                ELSE 0
    IN  [major |-> string_to_int(1),
         minor |-> IF find # 0 THEN string_to_int(find + 1) ELSE 0]

\* impl::Writer::compareVersions
compareVersions(major1, minor1, major2, minor2) ==
    IF major1 < major2 THEN -1
    ELSE IF major1 > major2 THEN 1
    ELSE IF minor1 < minor2 THEN -1
    ELSE IF minor1 > minor2 THEN 1 ELSE 0

\* impl::Writer::disableIncompatibleEncryption
disableIncompatibleEncryption(c, w, major, minor, extension_level) ==
    LET V == w.encryption.V
        R == w.encryption.R
        none == [w EXCEPT !.encryption = NoEncryption]
    IN  IF w.encryption = NoEncryption THEN w
        ELSE IF compareVersions(major, minor, 1, 3) < 0 THEN none
        ELSE IF compareVersions(major, minor, 1, 4) < 0
        THEN IF V > 1 \/ R > 2 THEN none ELSE w
        ELSE IF compareVersions(major, minor, 1, 5) < 0
        THEN IF V > 2 \/ R > 3 THEN none ELSE w
        ELSE IF compareVersions(major, minor, 1, 6) < 0
        THEN IF c.encrypt_use_aes THEN none ELSE w
        ELSE IF \/ compareVersions(major, minor, 1, 7) < 0
                \/ (compareVersions(major, minor, 1, 7) = 0 /\ extension_level < 3)
        THEN IF V >= 5 \/ R >= 5 THEN none ELSE w
        ELSE w

\* impl::Writer::doWriteSetup: the Config, the members and the document
\* after it
doWriteSetup(c, w, q) ==
    LET \* the map from an object stream to its objects, in the order of
        \* obj.forEach
        reverse(w2, streams) ==
            [w2 EXCEPT
                !.object_stream_to_objects =
                    [id \in streams |->
                        LET ids == SetToSeq({og \in LinObjs : w2.object_stream[og] = id})
                        IN  [k \in DOMAIN ids |->
                                [obj |-> ids[k], gen |-> w2.gen[ids[k]]]]],
                !.streams_empty = (streams = {})]
        used(w2) ==
            {w2.object_stream[og] : og \in {o \in LinObjs : w2.object_stream[o] > 0}}
        \* page dictionaries are not compressed objects of a linearized file
        pages(cf, w1) ==
            IF cf.linearize
            THEN [w1 EXCEPT !.object_stream =
                     [og \in LinObjs |->
                         IF og \in all_pages(q.npages) /\ w1.object_stream[og] > 0
                         THEN 0
                         ELSE w1.object_stream[og]]]
            ELSE w1
        root(cf, w1) == doWriteSetup_root(cf, pages(cf, w1))
        \* the switch on object_streams
        switch(cf, w1) ==
            IF cf.object_streams = "qpdf_o_disable"
            THEN [m |-> [w1 EXCEPT !.streams_empty = TRUE], qpdf |-> q]
            ELSE IF cf.object_streams = "qpdf_o_preserve"
            THEN [m |-> preserveObjectStreams(cf, w1, q), qpdf |-> q]
            ELSE generateObjectStreams(w1, q)
        streams(r, s, w2) ==
            IF s.m.streams_empty
            THEN [cfg |-> r.cfg, m |-> s.m, qpdf |-> s.qpdf]
            ELSE [cfg |-> r.cfg, m |-> reverse(w2, used(w2)), qpdf |-> s.qpdf]
        objects(r, s) == streams(r, s, root(r.cfg, s.m))
        \* r: after the encryption of the input was copied
        \* the forced version: v is what parseVersion made of it
        forced(r, v) ==
            IF r.cfg.forced_pdf_version = <<>> THEN r
            ELSE [cfg |-> IF compareVersions(v.major, v.minor, 1, 5) < 0
                          THEN object_streams(r.cfg, "qpdf_o_disable")
                          ELSE r.cfg,
                  m |-> disableIncompatibleEncryption(
                            r.cfg, r.m, v.major, v.minor, r.cfg.forced_extension_level)]
        tables(r) == objects(r, switch(r.cfg, r.m))
        copied(r) ==
            IF r.m.err # ""
            THEN [cfg |-> r.cfg, m |-> r.m, qpdf |-> q]
            ELSE tables(forced(r, parseVersion(r.cfg.forced_pdf_version)))
        copy(c2, w1) ==
            copied(IF c2.preserve_encryption
                   THEN copyEncryptionParameters(c2, w1, q)
                   ELSE [cfg |-> c2, m |-> w1])
        preserve(c1, w1) ==
            copy(IF w1.encryption.V # 0 THEN preserve_encryption(c1, FALSE)
                 ELSE IF c1.normalize_content \/ c1.pclm
                 THEN preserve_encryption(c1, FALSE)
                 ELSE c1,
                 w1)
        modes(c1) ==
            preserve(c1, IF c1.pclm THEN [w EXCEPT !.encryption = NoEncryption] ELSE w)
    IN  modes(IF c.linearize THEN qdf(c, FALSE) ELSE c)

\* impl::Writer::write: doWriteSetup, then writeLinearized or writeStandard
write ==
    /\ w_pc = "config"
    /\ LET setup(r) ==
               /\ cfg' = r.cfg
               /\ m' = r.m
               /\ qpdf' = r.qpdf
               /\ w_pc' = IF r.m.err # "" THEN "error"
                          ELSE IF r.cfg.linearize THEN "writeLinearized"
                          ELSE "writeStandard"
       IN  setup(doWriteSetup(cfg, m, qpdf))
    /\ UNCHANGED <<locals, out, linVars, stackVars, jobVars, envVars, unparseVars>>

\* impl::Writer::enqueueObjectsStandard and the enqueue calls of unparseChild:
\* the catalog first, then what it reaches, numbered as they are queued
enqueueObjectsStandard(w) ==
    LET objs == {RootObj, PagesObj} \cup all_pages(qpdf.npages)
        q == SetToSeq(objs)
    IN  [w EXCEPT !.object_queue = q,
                  !.object_queue_front = 0,
                  !.renumber = [og \in LinObjs |->
                                   IF og \in objs
                                   THEN CHOOSE k \in DOMAIN q : q[k] = og
                                   ELSE 0],
                  !.next_objid = Len(q) + 1]

\* impl::Writer::writeStandard, up to the loop over the queue
writeStandard_begin ==
    /\ w_pc = "writeStandard"
    /\ m' = enqueueObjectsStandard(writeHeader(m))
    /\ w_pc' = "standard_objects"
    /\ UNCHANGED <<cfg, qpdf, locals, out, linVars, stackVars, jobVars, envVars, unparseVars>>

\* impl::Writer::writeStandard, one turn of the loop over the queue
writeStandard_object ==
    /\ w_pc = "standard_objects"
    /\ m.object_queue_front < Len(m.object_queue)
    /\ LET cur_object == m.object_queue[m.object_queue_front + 1]
       IN  /\ m' = writeObject([m EXCEPT !.object_queue_front = @ + 1], cur_object)
           /\ out' = [out EXCEPT !.obj_begin[m.renumber[cur_object]] = m.count]
    /\ UNCHANGED <<cfg, qpdf, w_pc, locals, linVars, stackVars, jobVars, envVars, unparseVars>>

\* impl::Writer::writeStandard, after the loop: the encryption dictionary,
\* the cross-reference table with the trailer, startxref
writeStandard_end ==
    /\ w_pc = "standard_objects"
    /\ m.object_queue_front = Len(m.object_queue)
    /\ LET \* w1: after the encryption dictionary; x: after the table
           end(w1, x) ==
               LET xref_offset == w1.count
                   w2 == Write(x.m, Len("startxref\n") + Digits(xref_offset)
                                    + Len("\n%%EOF\n"))
               IN  /\ m' = IF x.m.err # "" THEN x.m ELSE w2
                   /\ w_pc' = Step(x.m, "done")
                   /\ out' = IF x.m.err # "" THEN out
                             ELSE [out EXCEPT
                                     !.xref = [i \in ObjIds |->
                                                  IF i \in DOMAIN x.entries
                                                  THEN x.entries[i] ELSE -1],
                                     !.obj_begin = [i \in ObjIds |->
                                                  IF m.encryption.V # 0
                                                     /\ i = w1.encryption_dict_objid
                                                  THEN m.count ELSE @[i]],
                                     !.id = <<x.m.id1, x.m.id2>>,
                                     !.startxref[2] = x.m.count,
                                     !.bytes[2] = w2.count]
           \* a table, or a stream whose id is the next one
           table(w1) ==
               IF w1.object_stream_to_objects = <<>>
               THEN end(w1, writeXRefTable(cfg, w1, "t_normal", 0, w1.next_objid - 1,
                                           w1.next_objid, 0, FALSE, 0, 0, 0, 0))
               ELSE end(w1, [m |-> writeXRefStream(
                                       cfg, [w1 EXCEPT !.next_objid = @ + 1],
                                       w1.next_objid, w1.next_objid, w1.count,
                                       "t_normal", 0, w1.next_objid, w1.next_objid + 1,
                                       0, 0, FALSE, 0, 0),
                             entries |-> <<>>])
       IN  table(IF m.encryption.V # 0 THEN writeEncryptionDictionary(cfg, m) ELSE m)
    /\ UNCHANGED <<cfg, qpdf, locals, linVars, stackVars, jobVars, envVars, unparseVars>>

\* the padding of the linearization parameter dictionary
pad == 200

\* impl::Writer::writeLinearized: lin.optimize builds the object-user maps
\* of the input
writeLinearized_optimize ==
    /\ w_pc = "writeLinearized"
    /\ m.streams_empty
    /\ object_to_obj_users_' = Optimized(qpdf.npages, [og \in FreeObjs |-> {}])
    /\ lin_doc' = [npages |-> qpdf.npages, outlines_null |-> TRUE,
                   outlines_og |-> DirectOg, outlines_in_first_page |-> FALSE,
                   thumb |-> [i \in 1..qpdf.npages |->
                                 [og |-> DirectOg, null |-> TRUE]]]
    /\ lin_pc' = "optimized"
    /\ w_pc' = "lin_parts"
    /\ UNCHANGED <<cfg, qpdf, m, locals, out, lin_parts, page_offset_hints_, stackVars, jobVars, envVars, unparseVars>>

\* enqueuePart for each part: part[i] gets the id first + i - 1
PartIds(r, part, first) ==
    [og \in LinObjs |->
        IF og \in {part[i] : i \in DOMAIN part}
        THEN first + (CHOOSE i \in DOMAIN part : part[i] = og) - 1
        ELSE r[og]]

\* impl::Writer::writeLinearized: lin.parts, the object number sequence and
\* the queue, up to the two passes
writeLinearized_parts ==
    /\ w_pc = "lin_parts"
    /\ LET \* r: what lin.parts returned
           enqueue(r) ==
               LET p == r.parts
                   second_half_uncompressed == Len(p.part7) + Len(p.part8) + Len(p.part9)
                   second_half_first_obj == 1
                   after_second_half == 1 + second_half_uncompressed
                   second_half_end == after_second_half - 1
                   second_trailer_size == after_second_half
                   first_half_start == after_second_half
                   lindict_id == after_second_half
                   part4_first_obj == lindict_id + 1
                   after_part4 == part4_first_obj + Len(p.part4)
                   encrypted == m.encryption.V # 0
                   hint_id == IF encrypted THEN after_part4 + 1 ELSE after_part4
                   part6_first_obj == hint_id + 1
                   after_part6 == part6_first_obj + Len(p.part6)
                   r4 == PartIds(m.renumber, p.part4, part4_first_obj)
                   r6 == PartIds(r4, p.part6, part6_first_obj)
                   r7 == PartIds(r6, p.part7, second_half_first_obj)
                   r8 == PartIds(r7, p.part8, second_half_first_obj + Len(p.part7))
                   r9 == PartIds(r8, p.part9,
                                 second_half_first_obj + Len(p.part7) + Len(p.part8))
               IN  /\ lin_parts' = p
                   /\ lin_pc' = IF r.err = "" THEN "done" ELSE "error"
                   /\ IF r.err # ""
                      THEN /\ m' = Throw(m, r.err)
                           /\ w_pc' = "error"
                           /\ UNCHANGED locals
                      ELSE /\ m' = [m EXCEPT
                                      !.encryption_dict_objid =
                                          IF encrypted THEN after_part4 ELSE @,
                                      !.renumber = r9,
                                      !.object_queue = p.part4 \o p.part6 \o p.part7
                                                          \o p.part8 \o p.part9,
                                      !.next_objid = after_second_half,
                                      !.count = 0]
                           /\ locals' = [NoLocals EXCEPT
                                      !.pass = 1,
                                      !.lindict_id = lindict_id,
                                      !.hint_id = hint_id,
                                      !.first_half_start = first_half_start,
                                      !.first_half_end = after_part6 - 1,
                                      !.first_trailer_size = after_part6,
                                      !.second_half_end = second_half_end,
                                      !.second_trailer_size = second_trailer_size,
                                      !.part4_end_marker = p.part4[Len(p.part4)],
                                      !.part6_end_marker = p.part6[Len(p.part6)]]
                           /\ w_pc' = "lin_first_half"
       IN  enqueue(calculateLinearizationData)
    /\ UNCHANGED <<cfg, qpdf, out, object_to_obj_users_, lin_doc, page_offset_hints_, stackVars, jobVars, envVars, unparseVars>>

\* impl::Writer::writeLinearized, parts 1 to 3 of a pass: the header, the
\* linearization parameter dictionary, the first-page cross-reference table
\* and trailer
writeLinearized_first_half ==
    /\ w_pc = "lin_first_half"
    /\ LET pass == locals.pass
           w1 == writeHeader(m)
           pos == w1.count
           o == openObject(w1, locals.lindict_id)
           dict == IF pass = 2
                   THEN Len(" /Linearized 1 /L ")
                        + Digits(locals.file_size + locals.hint_length)
                        + Len(" /H [ ") + Digits(m.new_obj[locals.hint_id])
                        + Len(" ") + Digits(locals.hint_length)
                        + Len(" ] /O ") + Digits(m.renumber[PageObj(0)])
                        + Len(" /E ")
                        + Digits(locals.part6_end_offset + locals.hint_length)
                        + Len(" /N ") + Digits(qpdf.npages)
                        + Len(" /T ")
                        + Digits(locals.space_before_zero + locals.hint_length)
                   ELSE 0
           w2 == closeObject(Write(o.m, Len("<<") + dict + Len(" >>")))
           padding == pos - w2.count + pad
           w3 == IF padding < 0
                 THEN Throw(w2, "range_error: QIntC::to_size")
                 ELSE Write(w2, padding + Len("\n"))
           first_xref_offset == w3.count
           hint_offset == IF pass = 2 THEN m.new_obj[locals.hint_id] ELSE 0
           \* x: after the table; w4: after startxref
           end(x, w4) ==
               /\ m' = w4
               /\ w_pc' = Step(w4, "lin_objects")
               /\ locals' = [locals EXCEPT !.first_xref_offset = first_xref_offset,
                                           !.k = 1]
               /\ out' = IF pass = 2 /\ w4.err = ""
                         THEN [out EXCEPT
                                 !.L = locals.file_size + locals.hint_length,
                                 !.id = <<w4.id1, w4.id2>>,
                                 !.xref = [i \in ObjIds |->
                                              IF i \in DOMAIN x.entries
                                              THEN x.entries[i] ELSE @[i]],
                                 !.obj_begin[locals.lindict_id] = pos]
                         ELSE out
           startxref(x) ==
               end(x, IF w3.err # "" THEN w3
                      ELSE IF x.m.err # "" THEN x.m
                      ELSE Write(x.m, Len("startxref\n0\n%%EOF\n")))
       IN  startxref(writeXRefTable(cfg, w3, "t_lin_first", locals.first_half_start,
                                    locals.first_half_end, locals.first_trailer_size,
                                    locals.hint_length + locals.second_xref_offset,
                                    pass = 1, locals.hint_id, hint_offset,
                                    locals.hint_length, pass))
    /\ UNCHANGED <<cfg, qpdf, linVars, stackVars, jobVars, envVars, unparseVars>>

\* impl::Writer::writeLinearized, parts 4 to 9 of a pass: one turn of the
\* loop over object_queue
writeLinearized_object ==
    /\ w_pc = "lin_objects"
    /\ locals.k <= Len(m.object_queue)
    /\ LET pass == locals.pass
           cur_object == m.object_queue[locals.k]
           w1 == writeObject(m, cur_object)
           after_part4 == cur_object = locals.part4_end_marker
           w2 == IF after_part4 /\ m.encryption.V # 0
                 THEN writeEncryptionDictionary(cfg, w1) ELSE w1
           w3 == IF ~after_part4 THEN w2
                 ELSE IF pass = 1
                 THEN [w2 EXCEPT !.new_obj[locals.hint_id] = w2.count]
                 ELSE Write(w2, locals.hint_length)
       IN  /\ m' = w3
           /\ locals' = [locals EXCEPT
                           !.k = @ + 1,
                           !.part6_end_offset =
                               IF cur_object = locals.part6_end_marker
                               THEN w3.count ELSE @]
           /\ out' = IF pass = 2
                     THEN [out EXCEPT !.obj_begin =
                             [i \in ObjIds |->
                                IF i = m.renumber[cur_object] THEN m.count
                                ELSE IF after_part4 /\ m.encryption.V # 0
                                        /\ i = m.encryption_dict_objid
                                THEN w1.count
                                ELSE IF after_part4 /\ i = locals.hint_id
                                THEN w2.count
                                ELSE @[i]]]
                     ELSE out
    /\ UNCHANGED <<cfg, qpdf, w_pc, linVars, stackVars, jobVars, envVars, unparseVars>>

\* impl::Writer::writeLinearized, part 11 of a pass: the main
\* cross-reference table and trailer, startxref; after pass 1 the
\* deterministic ID data, file_size and the hint stream
writeLinearized_second_half ==
    /\ w_pc = "lin_objects"
    /\ locals.k > Len(m.object_queue)
    /\ LET pass == locals.pass
           second_xref_offset == m.count
           \* x: after the table; w1: after startxref; w2: after the
           \* deterministic ID data; w3: after the hint stream
           end(x, w1, w2, w3) ==
               LET file_size == w2.count
                   hint_offset1 == w2.new_obj[locals.hint_id]
                   hint_length == w3.count
                   l1 == [locals EXCEPT !.second_xref_offset = second_xref_offset,
                                        !.space_before_zero = x.space_before_zero]
                   o1 == [out EXCEPT !.startxref[pass] = x.m.count,
                                     !.bytes[pass] = w1.count]
               IN  IF w1.err # ""
                   THEN /\ m' = w1
                        /\ w_pc' = "error"
                        /\ UNCHANGED <<locals, out>>
                   ELSE IF pass = 2
                   THEN /\ m' = w1
                        /\ w_pc' = "done"
                        /\ locals' = l1
                        /\ out' = [o1 EXCEPT !.xref = [i \in ObjIds |->
                                                  IF i \in DOMAIN x.entries
                                                  THEN x.entries[i] ELSE @[i]]]
                   ELSE IF w2.err # ""
                   THEN /\ m' = w2
                        /\ w_pc' = "error"
                        /\ UNCHANGED <<locals, out>>
                   ELSE /\ m' = [w3 EXCEPT !.count = 0,
                                           !.new_obj[locals.hint_id] = hint_offset1]
                        /\ w_pc' = "lin_first_half"
                        /\ locals' = [l1 EXCEPT !.pass = 2, !.file_size = file_size,
                                                !.hint_length = hint_length]
                        /\ out' = o1
           hint(x, w1, w2) ==
               end(x, w1, w2,
                   writeHintStream(cfg, [w2 EXCEPT !.count = 0], locals.hint_id))
           data(x, w1) ==
               hint(x, w1, IF w1.err = "" /\ cfg.deterministic_id
                           THEN computeDeterministicIDData(w1) ELSE w1)
           startxref(x) ==
               data(x, IF x.m.err # "" THEN x.m
                       ELSE Write(x.m, Len("startxref\n")
                                        + Digits(locals.first_xref_offset)
                                        + Len("\n%%EOF\n")))
       IN  startxref(writeXRefTable(cfg, m, "t_lin_second", 0, locals.second_half_end,
                                    locals.second_trailer_size, 0, FALSE, 0, 0, 0, pass))
    /\ UNCHANGED <<cfg, qpdf, linVars, stackVars, jobVars, envVars, unparseVars>>

----------------------------------------------------------------------------
(***************************************************************************)
(* Specifications                                                          *)
(***************************************************************************)
Constructed ==
    /\ StackConstructed
    /\ JobConstructed
    /\ CfgConstructed
    /\ LinConstructed
    /\ qpdf = PlainDocument
    /\ WriterConstructed
    /\ env = [time |-> 1, filename |-> "a.pdf"]
    /\ NothingUnparsed

StackInit ==
    Constructed

StackNext ==
    \/ \E p \in PopperSlots : NewPopper(p)
    \/ \E p \in PopperSlots, k \in {"chain", "discard", "pass", "str"} : ActivateFrame(p, k)
    \/ \E p \in PopperSlots : ActivateMd5(p)
    \/ HexDigest
    \/ \E p \in PopperSlots : PopperPop(p)
    \/ \E p \in PopperSlots : PopperDestroy(p)
    \/ \E p, q \in PopperSlots : PopperMove(p, q)
    \/ StackWrite

SpecStack == StackInit /\ [][StackNext]_vars

\* a call of Popper::pop() or of ~Popper() on a popper that holds stack id sid
PopCall(p, sid) ==
    /\ poppers[p].live /\ poppers[p].bound /\ poppers[p].stack_id = sid
    /\ (PopperPop(p) \/ PopperDestroy(p))

\* C3: a pop with a non-zero id removes exactly the top frame when the id is
\* the id of the top frame (the frame below becomes the top) and is a fatal
\* internal error otherwise; no frame is removed in any other way, and the
\* bottom frame installed by initialize is never removed.
C3_PopIsLifo ==
    /\ [](Len(stack) >= 1 /\ stack[1].kind = "bottom" /\ stack[1].id = 1)
    /\ [][\A p \in PopperSlots : \A sid \in 1..(MaxFrameId + 1) :
            PopCall(p, sid) =>
                IF sid = Top(stack).id
                THEN /\ ~stack_err'
                     /\ Len(stack) >= 2
                     /\ stack' = SubSeq(stack, 1, Len(stack) - 1)
                     /\ Top(stack').id = stack[Len(stack) - 1].id
                ELSE /\ stack_err'
                     /\ stack' = stack]_vars
    /\ [][Len(stack') < Len(stack) =>
            \E p \in PopperSlots : PopCall(p, Top(stack).id)]_vars

\* a frame below another one was popped through its handle after the one
\* above it: two frames were pushed and both popped in LIFO order
C3_Witness ==
    /\ ~stack_err
    /\ Len(stack) = 1
    /\ last_id >= 3
    /\ \A p \in PopperSlots : poppers[p].stack_id = 0

JobInit ==
    Constructed

JobNext ==
    \/ copyEncryption
    \/ decrypt
    \/ deterministicId
    \/ \E keylen \in {0, 40, 256} : encrypt(keylen)
    \/ endEncrypt

SpecJob == JobInit /\ [][JobNext]_vars

\* C4: in every sequence of deterministicId, copyEncryption, decrypt,
\* encrypt and endEncrypt calls that raised no usage error, the job
\* configuration never has deterministic_id together with encrypt or
\* copy_encryption.
C4_DeterministicIdExcludesEncryption ==
    ~job_usage =>
        ~(job.deterministic_id /\ (job.encrypt \/ job.copy_encryption))

\* the setters are called on the writer's Config (permissive) or on a Config
\* constructed without the argument
CfgInit ==
    /\ StackConstructed
    /\ JobConstructed
    /\ LinConstructed
    /\ qpdf = PlainDocument
    /\ WriterConstructed
    /\ env = [time |-> 1, filename |-> "a.pdf"]
    /\ NothingUnparsed
    /\ \E permissive \in BOOLEAN : cfg = ConfigDefaults(permissive)

CfgNext ==
    \/ \E mode \in {"uncompress", "preserve", "compress"} : setStreamDataMode(mode)
    \/ \E val \in BOOLEAN : setCompressStreams(val)
    \/ \E val \in {DecodeLevels[i] : i \in DOMAIN DecodeLevels} : setDecodeLevel(val)
    \/ \E val \in BOOLEAN : setQDFMode(val)
    \/ \E val \in BOOLEAN : setPreserveEncryption(val)
    \/ \E val \in BOOLEAN : setLinearization(val)
    \/ \E val \in BOOLEAN : setPCLm(val)

SpecCfg == CfgInit /\ [][CfgNext]_vars

\* C5: after any sequence of qdf, linearize, pclm, compress_streams,
\* decode_level and stream_data calls that raised no usage error, at most one
\* of qdf, linearize and pclm is true, and pclm is not true together with an
\* explicitly set decode_level or compress_streams.
C5_ModesExclusive ==
    ~cfg.threw =>
        /\ ~(cfg.qdf /\ cfg.linearize)
        /\ ~(cfg.qdf /\ cfg.pclm)
        /\ ~(cfg.linearize /\ cfg.pclm)
        /\ ~(cfg.pclm /\ (cfg.decode_level_set \/ cfg.compress_streams_set))

\* calculateHPageOffset with the delta entries left at their full values
calculateHPageOffset_Full(p) ==
    [min_nobjects |-> Len(p.part6), min_page_length |-> 0,
     entries |-> [i \in DOMAIN p.c_page_offset_data_ |->
                     [delta_nobjects |-> p.c_page_offset_data_[i].nobjects,
                      delta_page_length |-> 0,
                      nshared_objects |-> p.c_page_offset_data_[i].nshared_objects,
                      shared_identifiers |-> p.c_page_offset_data_[i].shared_identifiers]]]

\* Lin::calculateHPageOffset on the parts p: the fields of page_offset_hints_
\* that the parts and the lengths of the objects decide.  An object of the
\* output is as long as writeObject made it
calculateHPageOffset(p) ==
    LET cphe == p.c_page_offset_data_
        npages == Len(cphe)
        length(og) == Digits(og) + Len(" 0 obj\n") + unparseObject(og) + Len("\nendobj\n")
        \* Lin::outputLengthNextN(in_object, n): the n objects from in_object
        \* on are consecutive in the output, as they are in their part
        outputLengthNextN(in_object, n) ==
            LET part == IF in_object = PageObj(0) THEN p.part6 ELSE p.part7
                from == CHOOSE k \in DOMAIN part : part[k] = in_object
                Total[k \in 0..n] ==
                    IF k = 0 THEN 0
                    ELSE Total[k - 1] + length(part[from + k - 1])
            IN  Total[n]
        full == [i \in 1..npages |->
                    [nobjects |-> cphe[i].nobjects,
                     length |-> outputLengthNextN(PageObj(i - 1), cphe[i].nobjects),
                     nshared |-> cphe[i].nshared_objects]]
        Min(S) == CHOOSE x \in S : \A y \in S : x <= y
        min_nobjects == Min({full[i].nobjects : i \in 1..npages})
        min_length == Min({full[i].length : i \in 1..npages})
    IN  [min_nobjects |-> min_nobjects, min_page_length |-> min_length,
         entries |-> [i \in 1..npages |->
                         [delta_nobjects |-> full[i].nobjects - min_nobjects,
                          delta_page_length |-> full[i].length - min_length,
                          nshared_objects |-> full[i].nshared,
                          shared_identifiers |-> cphe[i].shared_identifiers]]]

\* Lin::generateHintStream, after pass 1: calculateHPageOffset(new_obj, obj)
generateHintStream_calculateHPageOffset ==
    /\ lin_pc = "done"
    /\ page_offset_hints_ = NoHints
    /\ page_offset_hints_' = calculateHPageOffset(lin_parts)
    /\ UNCHANGED <<object_to_obj_users_, lin_doc, lin_pc, lin_parts>>
    /\ UNCHANGED <<stackVars, jobVars, cfgVars, writerVars, envVars, unparseVars>>

\* the linearizer is handed an optimized document
LinInit ==
    /\ StackConstructed
    /\ JobConstructed
    /\ CfgConstructed
    /\ qpdf = PlainDocument
    /\ WriterConstructed
    /\ env = [time |-> 1, filename |-> "a.pdf"]
    /\ NothingUnparsed
    /\ \E np \in 1..MaxPages :
       \E free \in [FreeObjs -> FreeUserSets(np)] :
          LET users == Optimized(np, free) IN
          /\ object_to_obj_users_ = users
          /\ \E null \in BOOLEAN, first \in BOOLEAN :
             \E oog \in {DirectOg} \cup
                        {o \in LinObjs : ou_root_key("/Outlines") \in users[o]} :
             \E th \in [1..np -> UNION {ThumbChoices(users, i) : i \in 0..(np - 1)}] :
                /\ null => (oog = DirectOg /\ ~first)
                /\ \A i \in 1..np : th[i] \in ThumbChoices(users, i - 1)
                /\ lin_doc = [npages |-> np, outlines_null |-> null,
                              outlines_og |-> oog,
                              outlines_in_first_page |-> first, thumb |-> th]
    /\ lin_pc = "optimized"
    /\ lin_parts = NoParts
    /\ page_offset_hints_ = NoHints

LinNext ==
    \/ parts
    \/ generateHintStream_calculateHPageOffset

SpecLin == LinInit /\ [][LinNext]_vars

\* the objects of all five parts, one after the other
AllParts ==
    lin_parts.part4 \o lin_parts.part6 \o lin_parts.part7 \o lin_parts.part8
        \o lin_parts.part9

\* C8: when calculateLinearizationData completes without error, parts 4, 6,
\* 7, 8 and 9 are pairwise disjoint, no object occurs twice in a part, and
\* their union is the set of classified objects; a wrong count of placed
\* objects is an error and nothing is returned.
C8_PartsPartitionClassified ==
    /\ lin_pc = "done" =>
          /\ \A i, j \in DOMAIN AllParts : AllParts[i] = AllParts[j] => i = j
          /\ {AllParts[i] : i \in DOMAIN AllParts} = LinKeys
    /\ lin_pc = "error" => lin_parts = NoParts

\* a document of three pages or more was split with objects in each of the
\* five parts: the catalog, the first page, the other pages, an object shared
\* by two of them, and the pages tree with one more object
C8_Witness ==
    /\ lin_pc = "done"
    /\ lin_doc.npages >= 3
    /\ Len(lin_parts.part4) >= 1
    /\ Len(lin_parts.part6) >= 1
    /\ Len(lin_parts.part7) >= 2
    /\ Len(lin_parts.part8) >= 1
    /\ Len(lin_parts.part9) >= 2

\* a writer is constructed on an input document; the linearizer has not run
WriterInit ==
    /\ StackConstructed
    /\ JobConstructed
    /\ CfgConstructed
    /\ LinConstructed
    /\ qpdf \in InputDocs
    /\ WriterConstructed
    /\ env = [time |-> 1, filename |-> "a.pdf"]
    /\ NothingUnparsed

WriterNext ==
    \/ \E val \in BOOLEAN : setStaticID(val)
    \/ \E val \in BOOLEAN : setDeterministicID(val)
    \/ \E val \in BOOLEAN : w_pc = "config" /\ setLinearization(val)
    \/ setR2EncryptionParametersInsecure
    \/ \E use_aes \in BOOLEAN : setR4EncryptionParametersInsecure(use_aes)
    \/ setR6EncryptionParameters
    \/ \E q \in OtherDocs : QPDFWriter_copyEncryptionParameters(q)
    \/ write
    \/ writeStandard_begin
    \/ writeStandard_object
    \/ writeStandard_end
    \/ writeLinearized_optimize
    \/ writeLinearized_parts
    \/ writeLinearized_first_half
    \/ writeLinearized_object
    \/ writeLinearized_second_half

SpecWriter == WriterInit /\ [][WriterNext]_vars

\* QPDFWriter::getRenumberedObjGen
getRenumberedObjGen(w, og) == [obj |-> w.renumber[og.obj], gen |-> 0]

\* impl::Writer::writeObjectStream, pass 1: the members written for the
\* object stream old_id.  A stream found among them is written as null.
\* index is the count of the loop, written is what writeObject was given,
\* gen the generation under which the member is read back: the header of
\* the object stream holds an id and an offset for it, and its xref entry
\* is QPDFXRefEntry(new_stream_id, count)
writeObjectStream(w, q, old_id) ==
    LET objects == w.object_stream_to_objects[old_id]
        Kind(og) ==
            IF og = RootObj THEN "catalog"
            ELSE IF og = PagesObj THEN "pages tree"
            ELSE IF og \in all_pages(q.npages) THEN "page"
            ELSE "dictionary"
    IN  [k \in DOMAIN objects |->
            [og |-> objects[k],
             index |-> k - 1,
             written |-> IF q.xref[objects[k].obj].is_stream
                         THEN "null"
                         ELSE Kind(objects[k].obj),
             gen |-> getRenumberedObjGen(w, objects[k]).gen]]

\* impl::Writer::writeObject on an object stream, as the loops of
\* writeStandard and writeLinearized over the queue call it.  Which object
\* streams the queue holds, and in which order, is left open
writeObject_ObjStm(old_id) ==
    /\ w_pc \in {"writeStandard", "writeLinearized"}
    /\ old_id \in DOMAIN m.object_stream_to_objects
    /\ \A s \in out.ostreams : s.stream # old_id
    /\ out' = [out EXCEPT !.ostreams =
                  @ \cup {[stream |-> old_id,
                           members |-> writeObjectStream(m, qpdf, old_id)]}]
    /\ UNCHANGED <<cfg, qpdf, m, w_pc, locals, linVars, stackVars, jobVars, envVars, unparseVars>>

\* the object besides the catalog, the pages tree and the page, and the
\* object stream of the input
ExtraObj == 3 + MaxPages

ObjStmObj == 2 + MaxPages + MaxFreeObjs

\* documents of one page with an object stream: in_stream are the objects
\* kept in it, extra says what ExtraObj is, compressible is what
\* Doc::Objects lets into an object stream
ObjStmDocs ==
    {[PlainDocument EXCEPT
         !.compressible = compressible,
         !.xref = [og \in LinObjs |->
                      IF og \in in_stream
                      THEN XRefEntry(2, ObjStmObj, 0, og = ExtraObj /\ extra.is_stream)
                      ELSE IF og \in {RootObj, PagesObj, PageObj(0)}
                      THEN XRefEntry(1, 0, 0, FALSE)
                      ELSE IF og = ExtraObj
                      THEN XRefEntry(1, 0, extra.gen, extra.is_stream)
                      ELSE IF og = ObjStmObj /\ in_stream # {}
                      THEN XRefEntry(1, 0, 0, TRUE)
                      ELSE XRefEntry(0, 0, 0, FALSE)]] :
        in_stream \in SUBSET {RootObj, PageObj(0), ExtraObj},
        extra \in [is_stream : BOOLEAN, gen : {0, 1}],
        compressible \in SUBSET {RootObj, PageObj(0), ExtraObj}}

ObjStmInit ==
    /\ StackConstructed
    /\ JobConstructed
    /\ CfgConstructed
    /\ LinConstructed
    /\ qpdf \in ObjStmDocs
    /\ WriterConstructed
    /\ env = [time |-> 1, filename |-> "a.pdf"]
    /\ NothingUnparsed

ObjStmNext ==
    \/ \E mode \in {"qpdf_o_disable", "qpdf_o_preserve", "qpdf_o_generate"} :
           setObjectStreamMode(mode)
    \/ \E val \in BOOLEAN : setPreserveUnreferencedObjects(val)
    \/ \E val \in BOOLEAN : w_pc = "config" /\ setLinearization(val)
    \/ \E use_aes \in BOOLEAN : setR4EncryptionParametersInsecure(use_aes)
    \/ write
    \/ \E old_id \in DOMAIN m.object_stream_to_objects : writeObject_ObjStm(old_id)

SpecObjStm == ObjStmInit /\ [][ObjStmNext]_vars

----------------------------------------------------------------------------
(***************************************************************************)
(* Two writes of one input: a second QPDFWriter is constructed on the same *)
(* QPDF after the first write completed, at another time and for another   *)
(* output file.                                                            *)
(***************************************************************************)
\* QPDFWriter::QPDFWriter(QPDF&, char const* filename), called at time t on
\* the QPDF of a write that completed, which is remembered
QPDFWriter_QPDFWriter(t, filename) ==
    /\ w_pc = "done"
    /\ ~earlier.done
    /\ earlier' = [done |-> TRUE, env |-> env, cfg |-> cfg, out |-> out]
    /\ env' = [time |-> t, filename |-> filename]
    /\ cfg' = ConfigDefaults(TRUE)
    /\ m' = Members
    /\ w_pc' = "config"
    /\ locals' = NoLocals
    /\ out' = NoOutput
    /\ UNCHANGED <<qpdf, linVars, stackVars, jobVars, unparseVars>>

TwoWritesInit ==
    /\ StackConstructed
    /\ JobConstructed
    /\ CfgConstructed
    /\ LinConstructed
    /\ qpdf \in InputDocs
    /\ m = Members
    /\ w_pc = "config"
    /\ locals = NoLocals
    /\ out = NoOutput
    /\ earlier = [done |-> FALSE]
    /\ env \in [time : 1..MaxTime, filename : {"a.pdf", "b.pdf"}]
    /\ NothingUnparsed

TwoWritesNext ==
    \/ \E val \in BOOLEAN : setStaticID(val)
    \/ \E val \in BOOLEAN : setDeterministicID(val)
    \/ \E use_aes \in BOOLEAN : setR4EncryptionParametersInsecure(use_aes)
    \/ write
    \/ writeStandard_begin
    \/ writeStandard_object
    \/ writeStandard_end
    \/ \E t \in 1..MaxTime, filename \in {"a.pdf", "b.pdf"} :
           QPDFWriter_QPDFWriter(t, filename)

SpecTwoWrites == TwoWritesInit /\ [][TwoWritesNext]_vars

----------------------------------------------------------------------------
(***************************************************************************)
(* impl::Writer::unparseObject on the objects of the input.  A handle      *)
(* (QPDFObjectHandle) is the name of an object of heap; getKey returns the *)
(* handle of the value.  unsafeShallowCopy makes a dictionary with the     *)
(* same handles under the same keys; the copy is a local of unparseObject, *)
(* and what is written of it is added to emitted.                          *)
(***************************************************************************)
\* no /ADBE in an /Extensions dictionary; otherwise base says that
\* /BaseVersion is the final PDF version, level is /ExtensionLevel
NoADBE == [present |-> FALSE, base |-> FALSE, level |-> 0]

\* the objects unparseObject reaches from the catalog, from one stream and
\* from one signature dictionary: the direct /Extensions dictionary of the
\* catalog ("none": no such key), the /Filter of the stream ("none", a name,
\* or the array "filter"), its /DecodeParms ("none" or the array
\* "decode_parms", of the length of the /Filter array), and the /Contents of
\* the signature dictionary, a direct string or an indirect object
InputGraphs ==
    LET names == {"/Crypt", "/FlateDecode"}
        arrays == UNION {[1..n -> names] : n \in 0..MaxFilters}
        adbes == {NoADBE} \cup [present : {TRUE}, base : BOOLEAN, level : {0, 3}]
        graph(root, extensions, s, sig) ==
            [root |-> root, extensions |-> extensions,
             stream_dict |-> s.dict, filter |-> s.filter,
             decode_parms |-> s.decode_parms, sig |-> sig]
        plain == [dict |-> [Length |-> TRUE, Filter |-> "none", DecodeParms |-> "none"],
                  filter |-> <<>>, decode_parms |-> <<>>]
        direct == [Type |-> "/Sig", ByteRange |-> TRUE, Contents |-> "direct"]
    IN  {graph([Extensions |-> "none"], [ADBE |-> NoADBE, Other |-> FALSE], s, direct) :
            s \in {[plain EXCEPT !.dict.Filter = f] : f \in names}
                \cup {[dict |-> [Length |-> TRUE, Filter |-> "filter", DecodeParms |-> p],
                       filter |-> a,
                       decode_parms |-> IF p = "none" THEN <<>>
                                        ELSE [i \in DOMAIN a |-> "null"]] :
                        a \in arrays, p \in {"none", "decode_parms"}}}
        \cup
        {graph([Extensions |-> "extensions"], [ADBE |-> a, Other |-> o], plain, direct) :
            a \in adbes, o \in BOOLEAN}
        \cup
        {graph([Extensions |-> "none"], [ADBE |-> NoADBE, Other |-> FALSE], plain,
               [Type |-> t, ByteRange |-> b, Contents |-> c]) :
            t \in {"/Sig", "/Annot"}, b \in BOOLEAN, c \in {"direct", "indirect"}}

\* impl::Writer::writeObject of the catalog: unparseObject, tc ==
\* ot_dictionary, old_og == root_og, the /Extensions of the catalog.
\* extensions is the handle taken from the catalog before the copy is made
unparseObject_root(final_extension_level) ==
    LET extensions == heap.root.Extensions
        has_extensions == extensions # "none"
        need_extensions_adbe == final_extension_level > 0
        have_extensions_adbe == has_extensions /\ heap.extensions.ADBE.present
        have_extensions_other == has_extensions /\ heap.extensions.Other
        \* extensions after the copy got a new dictionary ("new") or lost its key
        extensions1 ==
            IF need_extensions_adbe
            THEN IF ~(have_extensions_other \/ have_extensions_adbe)
                 THEN "new" ELSE extensions
            ELSE IF ~have_extensions_other /\ have_extensions_adbe
                 THEN "none" ELSE extensions
        dict == IF extensions1 = "new" THEN [ADBE |-> NoADBE, Other |-> FALSE]
                ELSE heap.extensions
        adbe == dict.ADBE
        \* extensions.replaceKey("/ADBE", ...) or extensions.removeKey("/ADBE")
        dict1 == IF adbe.present /\ adbe.base /\ adbe.level = final_extension_level
                 THEN dict
                 ELSE IF need_extensions_adbe
                 THEN [dict EXCEPT !.ADBE = [present |-> TRUE, base |-> TRUE,
                                             level |-> final_extension_level]]
                 ELSE [dict EXCEPT !.ADBE = NoADBE]
        written == (has_extensions \/ need_extensions_adbe) /\ extensions1 # "none"
    IN  /\ w_pc \in {"writeStandard", "writeLinearized"}
        /\ heap' = IF (has_extensions \/ need_extensions_adbe)
                      /\ extensions1 = "extensions"
                   THEN [heap EXCEPT !.extensions = dict1]
                   ELSE heap
        /\ emitted' = [object |-> "root",
                       Extensions |-> IF written THEN "dictionary" ELSE "none",
                       dict |-> IF written THEN dict1
                                ELSE [ADBE |-> NoADBE, Other |-> FALSE]]
        /\ UNCHANGED <<pipe, stackVars, jobVars, cfgVars, linVars, writerVars, envVars>>

\* QPDFObjectHandle::eraseItem: bounds are checked
eraseItem(array, at) ==
    IF at \in DOMAIN array
    THEN [i \in 1..(Len(array) - 1) |-> IF i < at THEN array[i] ELSE array[i + 1]]
    ELSE array

\* impl::Writer::unparseObject, tc == ot_dictionary, flags & f_stream: the
\* dictionary of the stream of h; filtered is flags & f_filtered.  heap is
\* the input afterwards, dict what was written apart from /Length
unparseObject_stream_dict(h, filtered) ==
    LET object == h.stream_dict
        \* the copy after removeKey("/Length") and, /DecodeParms being empty,
        \* removeKey("/DecodeParms")
        copy == [Filter |-> object.Filter,
                 DecodeParms |-> IF object.DecodeParms = "decode_parms"
                                    /\ h.decode_parms # <<>>
                                 THEN "decode_parms" ELSE "none"]
        filter == copy.Filter
        decode_parms == copy.DecodeParms
        isOrHasName == \/ filter = "/Crypt"
                       \/ filter = "filter"
                          /\ \E i \in DOMAIN h.filter : h.filter[i] = "/Crypt"
        idx == CHOOSE i \in DOMAIN h.filter :
                   /\ h.filter[i] = "/Crypt"
                   /\ \A j \in 1..(i - 1) : h.filter[j] # "/Crypt"
        heap1 == IF ~filtered /\ isOrHasName /\ filter = "filter"
                 THEN [h EXCEPT
                          !.filter = eraseItem(@, idx),
                          !.decode_parms = IF decode_parms = "decode_parms"
                                           THEN eraseItem(@, idx) ELSE @]
                 ELSE h
        copy1 == IF filtered \/ (isOrHasName /\ filter = "/Crypt")
                 THEN [Filter |-> "none", DecodeParms |-> "none"]
                 ELSE copy
    IN  [heap |-> heap1,
         dict |-> [Filter |-> copy1.Filter,
                   filter |-> IF copy1.Filter = "filter" THEN heap1.filter ELSE <<>>,
                   DecodeParms |-> copy1.DecodeParms,
                   decode_parms |-> IF copy1.DecodeParms = "decode_parms"
                                    THEN heap1.decode_parms ELSE <<>>]]

\* will_filter_stream with one attempt, whatever pipeStreamData does
will_filter_stream_Once(c, w, s, o1, o2) ==
    [attempts |-> <<[filter |-> TRUE, first_attempt |-> TRUE, outcome |-> o1]>>,
     warnings |-> 0, error |-> "", filter |-> o1 = "true",
     compress_stream |-> FALSE, is_root_metadata |-> s.is_root_metadata,
     stream_data |-> s.size, filter_on_write |-> s.filter_on_write]

\* will_filter_stream with the test of FlateDecode made for every value of
\* compress_streams
will_filter_stream_FlateAlways(c, w, s, o1, o2) ==
    LET Filter == s.Filter
        \* the bytes pipeStreamData gives for the stream when it filters
        Filtered(size) == 2 * size
        recompress_flate == FALSE
        isDataModified == FALSE
        filter0 == isDataModified \/ c.compress_streams \/ c.decode_level # "none"
        filter1 == IF ~recompress_flate /\ ~isDataModified
                      /\ Filter = "/FlateDecode"
                   THEN FALSE ELSE filter0
        root == s.is_root_metadata /\ (w.encryption.V = 0 \/ ~s.encrypt_metadata)
        normalize == c.normalize_content /\ s.normalized
        filter2 == s.filter_on_write /\ (root \/ normalize \/ filter1)
        compress == s.filter_on_write /\ ~root /\ ~normalize
                    /\ filter1 /\ c.compress_streams
        \* Integer(stream_dict["/Length"]) == 0
        filter == filter2 \/ s.size = 0
        encode_compress == compress /\ s.size # 0
        first == [filter |-> filter, first_attempt |-> TRUE, outcome |-> o1]
        second == [filter |-> FALSE, first_attempt |-> FALSE, outcome |-> o2]
        result(attempts, warnings, error, returned, data, filter_on_write) ==
            [attempts |-> attempts, warnings |-> warnings, error |-> error,
             filter |-> returned, compress_stream |-> returned /\ encode_compress,
             is_root_metadata |-> s.is_root_metadata, stream_data |-> data,
             filter_on_write |-> filter_on_write]
        thrown == "error while getting stream data for " \o s.og \o ": pipeStreamData"
        \* after "Try again": filter = false, setFilterOnWrite(false),
        \* stream_data->clear() of the bytes captured so far, and the second
        \* pass of the loop, which appends the raw data
        again(warnings, captured) ==
            LET cleared == captured - captured
            IN  IF o2 = "throw"
                THEN result(<<first, second>>, warnings, thrown, FALSE, cleared, FALSE)
                ELSE result(<<first, second>>, warnings, "", FALSE,
                            cleared + s.size, FALSE)
    IN  IF o1 = "true"
        THEN result(<<first>>, 0, "", TRUE, Filtered(s.size), s.filter_on_write)
        ELSE IF o1 = "false"
        THEN IF ~filter
             THEN result(<<first>>, 0, "", FALSE, s.size, s.filter_on_write)
             ELSE again(0, s.size)
        ELSE IF ~filter
             THEN result(<<first>>, 0, thrown, FALSE, 0, s.filter_on_write)
             ELSE again(2, s.size \div 2)

\* will_filter_stream with filtering switched off for a stream of /Length 0
will_filter_stream_EmptyUnfiltered(c, w, s, o1, o2) ==
    LET Filter == s.Filter
        \* the bytes pipeStreamData gives for the stream when it filters
        Filtered(size) == 2 * size
        recompress_flate == FALSE
        isDataModified == FALSE
        filter0 == isDataModified \/ c.compress_streams \/ c.decode_level # "none"
        filter1 == IF c.compress_streams /\ ~recompress_flate /\ ~isDataModified
                      /\ Filter = "/FlateDecode"
                   THEN FALSE ELSE filter0
        root == s.is_root_metadata /\ (w.encryption.V = 0 \/ ~s.encrypt_metadata)
        normalize == c.normalize_content /\ s.normalized
        filter2 == s.filter_on_write /\ (root \/ normalize \/ filter1)
        compress == s.filter_on_write /\ ~root /\ ~normalize
                    /\ filter1 /\ c.compress_streams
        \* Integer(stream_dict["/Length"]) == 0
        filter == filter2 /\ s.size # 0
        encode_compress == compress /\ s.size # 0
        first == [filter |-> filter, first_attempt |-> TRUE, outcome |-> o1]
        second == [filter |-> FALSE, first_attempt |-> FALSE, outcome |-> o2]
        result(attempts, warnings, error, returned, data, filter_on_write) ==
            [attempts |-> attempts, warnings |-> warnings, error |-> error,
             filter |-> returned, compress_stream |-> returned /\ encode_compress,
             is_root_metadata |-> s.is_root_metadata, stream_data |-> data,
             filter_on_write |-> filter_on_write]
        thrown == "error while getting stream data for " \o s.og \o ": pipeStreamData"
        \* after "Try again": filter = false, setFilterOnWrite(false),
        \* stream_data->clear() of the bytes captured so far, and the second
        \* pass of the loop, which appends the raw data
        again(warnings, captured) ==
            LET cleared == captured - captured
            IN  IF o2 = "throw"
                THEN result(<<first, second>>, warnings, thrown, FALSE, cleared, FALSE)
                ELSE result(<<first, second>>, warnings, "", FALSE,
                            cleared + s.size, FALSE)
    IN  IF o1 = "true"
        THEN result(<<first>>, 0, "", TRUE, Filtered(s.size), s.filter_on_write)
        ELSE IF o1 = "false"
        THEN IF ~filter
             THEN result(<<first>>, 0, "", FALSE, s.size, s.filter_on_write)
             ELSE again(0, s.size)
        ELSE IF ~filter
             THEN result(<<first>>, 0, thrown, FALSE, 0, s.filter_on_write)
             ELSE again(2, s.size \div 2)

\* impl::Writer::will_filter_stream for the stream s of size bytes.  o1 and
\* o2 are what pipeStreamData does on the first and on the second attempt:
\* it returns true (the data was filtered), returns false, or throws
will_filter_stream(c, w, s, o1, o2) ==
    LET Filter == s.Filter
        \* the bytes pipeStreamData gives for the stream when it filters
        Filtered(size) == 2 * size
        recompress_flate == FALSE
        isDataModified == FALSE
        filter0 == isDataModified \/ c.compress_streams \/ c.decode_level # "none"
        filter1 == IF c.compress_streams /\ ~recompress_flate /\ ~isDataModified
                      /\ Filter = "/FlateDecode"
                   THEN FALSE ELSE filter0
        root == s.is_root_metadata /\ (w.encryption.V = 0 \/ ~s.encrypt_metadata)
        normalize == c.normalize_content /\ s.normalized
        filter2 == s.filter_on_write /\ (root \/ normalize \/ filter1)
        compress == s.filter_on_write /\ ~root /\ ~normalize
                    /\ filter1 /\ c.compress_streams
        \* Integer(stream_dict["/Length"]) == 0
        filter == filter2 \/ s.size = 0
        encode_compress == compress /\ s.size # 0
        first == [filter |-> filter, first_attempt |-> TRUE, outcome |-> o1]
        second == [filter |-> FALSE, first_attempt |-> FALSE, outcome |-> o2]
        result(attempts, warnings, error, returned, data, filter_on_write) ==
            [attempts |-> attempts, warnings |-> warnings, error |-> error,
             filter |-> returned, compress_stream |-> returned /\ encode_compress,
             is_root_metadata |-> s.is_root_metadata, stream_data |-> data,
             filter_on_write |-> filter_on_write]
        thrown == "error while getting stream data for " \o s.og \o ": pipeStreamData"
        \* after "Try again": filter = false, setFilterOnWrite(false),
        \* stream_data->clear() of the bytes captured so far, and the second
        \* pass of the loop, which appends the raw data
        again(warnings, captured) ==
            LET cleared == captured - captured
            IN  IF o2 = "throw"
                THEN result(<<first, second>>, warnings, thrown, FALSE, cleared, FALSE)
                ELSE result(<<first, second>>, warnings, "", FALSE,
                            cleared + s.size, FALSE)
    IN  IF o1 = "true"
        THEN result(<<first>>, 0, "", TRUE, Filtered(s.size), s.filter_on_write)
        ELSE IF o1 = "false"
        THEN IF ~filter
             THEN result(<<first>>, 0, "", FALSE, s.size, s.filter_on_write)
             ELSE again(0, s.size)
        ELSE IF ~filter
             THEN result(<<first>>, 0, thrown, FALSE, 0, s.filter_on_write)
             ELSE again(2, s.size \div 2)

\* impl::Writer::writeObject of the stream: setDataKey, and unparseObject, tc
\* == ot_stream.  s tells whether the stream is the metadata of the catalog,
\* what encryption->getEncryptMetadata() answers, whether doWriteSetup
\* normalized it, and the size of its data; the new id of the stream is 4
unparseObject_stream(s, o1, o2) ==
    LET NewId == 4
        \* what pipeStreamData can do when it is asked to filter, and when not
        Outcomes(filter) ==
            IF filter THEN {"true", "false", "throw"} ELSE {"false", "throw"}
        w1 == setDataKey(m, NewId)
        r == will_filter_stream(
                 cfg, w1,
                 [is_root_metadata |-> s.is_root_metadata,
                  encrypt_metadata |-> s.encrypt_metadata,
                  normalized |-> s.normalized, size |-> s.size,
                  og |-> ToString(NewId) \o " 0 R",
                  Filter |-> heap.stream_dict.Filter,
                  filter_on_write |-> pipe.filter_on_write],
                 o1, o2)
        end(result, w2) ==
            LET unparsed == unparseObject_stream_dict(heap, result.filter)
            IN  /\ heap' = unparsed.heap
                /\ emitted' =
                       [object |-> "stream", dict |-> unparsed.dict,
                        size |-> result.stream_data,
                        encrypted |-> w2.encryption.V # 0 /\ w2.cur_data_key # 0,
                        encrypt_use_aes |-> cfg.encrypt_use_aes,
                        Length |-> adjustAESStreamLength(cfg, w2, result.stream_data),
                        data |-> write_encrypted(cfg, w2, result.stream_data),
                        FlateDecode |-> result.compress_stream /\ result.filter]
    IN  /\ w_pc \in {"writeStandard", "writeLinearized"}
        /\ o1 \in Outcomes(r.attempts[1].filter)
        /\ o2 \in Outcomes(FALSE)
        /\ Len(r.attempts) = 1 => o2 = "false"
        /\ pipe' = [filter_on_write |-> r.filter_on_write, attempts |-> r.attempts,
                    warnings |-> r.warnings, error |-> r.error,
                    size |-> s.size, stream_data |-> r.stream_data,
                    getFilterOnWrite |-> pipe.filter_on_write,
                    is_root_metadata |-> s.is_root_metadata,
                    normalized |-> s.normalized,
                    filter |-> r.filter, compress_stream |-> r.compress_stream]
        /\ IF r.error # ""
           THEN /\ w_pc' = "error"
                /\ m' = Throw(w1, "runtime_error: " \o r.error)
                /\ UNCHANGED <<heap, emitted>>
           ELSE /\ end(r, IF r.is_root_metadata /\ w1.encryption.V # 0
                             /\ ~s.encrypt_metadata
                          THEN [w1 EXCEPT !.cur_data_key = 0] ELSE w1)
                /\ UNCHANGED <<w_pc, m>>
        /\ UNCHANGED <<cfg, qpdf, locals, out, stackVars, jobVars, linVars, envVars>>

\* impl::Writer::writeObjectStream, "Write the object": the dictionary and
\* the data of an object stream whose buffer of pass 2 has size bytes
writeObjectStream_stream(size) ==
    LET w1 == setDataKey(m, 4)
    IN  /\ w_pc \in {"writeStandard", "writeLinearized"}
        /\ emitted' = [object |-> "object stream", size |-> size,
                       encrypted |-> w1.encryption.V # 0 /\ w1.cur_data_key # 0,
                       encrypt_use_aes |-> cfg.encrypt_use_aes,
                       Length |-> adjustAESStreamLength(cfg, w1, size),
                       data |-> write_encrypted(cfg, w1, size)]
        /\ UNCHANGED <<heap, pipe, stackVars, jobVars, cfgVars, linVars, writerVars, envVars>>

\* impl::Writer::writeHintStream: the dictionary and the data
writeHintStream_stream ==
    LET w1 == setDataKey(m, 4)
        hlen == generateHintStream.size
    IN  /\ w_pc = "writeLinearized"
        /\ emitted' = [object |-> "hint stream", size |-> hlen,
                       encrypted |-> w1.encryption.V # 0 /\ w1.cur_data_key # 0,
                       encrypt_use_aes |-> cfg.encrypt_use_aes,
                       Length |-> adjustAESStreamLength(cfg, w1, hlen),
                       data |-> write_encrypted(cfg, w1, hlen)]
        /\ UNCHANGED <<heap, pipe, stackVars, jobVars, cfgVars, linVars, writerVars, envVars>>

\* impl::Writer::unparseObject, tc == ot_string, of a string that is not in
\* an object stream: how the string is written under flags
unparseObject_string(c, w, owner, no_encryption, hex_string) ==
    LET encrypted == w.encryption.V # 0 /\ ~no_encryption /\ w.cur_data_key # 0
    IN  [object |-> "string", owner |-> owner, encrypted |-> encrypted,
         hex |-> IF encrypted THEN c.encrypt_use_aes ELSE hex_string]

\* impl::Writer::writeObject of the dictionary heap.sig: setDataKey, and
\* unparseObject, tc == ot_dictionary, down to unparseChild of /Contents,
\* which writes a reference for an indirect object
writeObject_sig ==
    LET w1 == setDataKey(m, 4)
        sig == heap.sig.Type = "/Sig" /\ heap.sig.ByteRange
    IN  /\ w_pc \in {"writeStandard", "writeLinearized"}
        /\ emitted' = IF heap.sig.Contents = "indirect"
                      THEN [object |-> "reference", owner |-> heap.sig]
                      ELSE unparseObject_string(cfg, w1, heap.sig, sig, sig)
        /\ UNCHANGED <<heap, pipe, stackVars, jobVars, cfgVars, linVars, writerVars, envVars>>

\* impl::Writer::writeObject of the string object that is the /Contents of
\* heap.sig: setDataKey, and unparseObject(object, 0, 0)
writeObject_string ==
    LET w1 == setDataKey(m, 5)
    IN  /\ w_pc \in {"writeStandard", "writeLinearized"}
        /\ heap.sig.Contents = "indirect"
        /\ emitted' = unparseObject_string(cfg, w1, heap.sig, FALSE, FALSE)
        /\ UNCHANGED <<heap, pipe, stackVars, jobVars, cfgVars, linVars, writerVars, envVars>>

\* no stream was given to will_filter_stream yet; getFilterOnWrite() of the
\* stream is true
NothingPiped ==
    [filter_on_write |-> TRUE, attempts |-> <<>>, warnings |-> 0, error |-> "",
     size |-> 0, stream_data |-> 0, getFilterOnWrite |-> TRUE,
     is_root_metadata |-> FALSE, normalized |-> FALSE,
     filter |-> FALSE, compress_stream |-> FALSE]

UnparseInit ==
    /\ StackConstructed
    /\ JobConstructed
    /\ CfgConstructed
    /\ LinConstructed
    /\ qpdf = PlainDocument
    /\ WriterConstructed
    /\ env = [time |-> 1, filename |-> "a.pdf"]
    /\ heap \in InputGraphs
    /\ emitted = [object |-> "none"]
    /\ pipe = NothingPiped

UnparseNext ==
    \/ \E val \in BOOLEAN : w_pc = "config" /\ setLinearization(val)
    \/ \E use_aes \in BOOLEAN : setR4EncryptionParametersInsecure(use_aes)
    \/ write
    \/ \E final_extension_level \in {0, 3} : unparseObject_root(final_extension_level)
    \/ \E s \in [is_root_metadata : BOOLEAN, encrypt_metadata : BOOLEAN,
                 normalized : {FALSE}, size : {0, 5, 16}],
          o1, o2 \in {"true", "false", "throw"} : unparseObject_stream(s, o1, o2)
    \/ \E size \in {0, 5, 16} : writeObjectStream_stream(size)
    \/ writeHintStream_stream
    \/ writeObject_sig
    \/ writeObject_string

SpecUnparse == UnparseInit /\ [][UnparseNext]_vars

----------------------------------------------------------------------------
(***************************************************************************)
(* Lin::optimize_internal: the object-user maps built by updateObjectMaps  *)
(* from the pages, the trailer and the catalog.  heap is the document:     *)
(* objs[og] is the kind of the object og ("null", "dictionary", "page" for *)
(* a dictionary of /Type /Page, "stream") and the indirect objects under   *)
(* its keys, in the order in which as_dictionary gives them; trailer are   *)
(* the keys of the trailer apart from /Root; ssp is what                   *)
(* skip_stream_parameters answers; object_stream_data maps an object to    *)
(* the object stream that contains it, 0 when there is none.               *)
(***************************************************************************)
\* Lin::updateObjectMaps, the loop "while (!pending.empty())": pending is
\* the vector of UpdateObjectMapsFrame, its back at the end; users is
\* object_to_obj_users_
RECURSIVE updateObjectMaps(_, _, _, _)
updateObjectMaps(g, pending, visited, users) ==
    IF pending = <<>> THEN users
    ELSE LET cur == pending[Len(pending)]
             popped == SubSeq(pending, 1, Len(pending) - 1)
             object == g.objs[cur.oh]
             is_page_node == object.kind = "page"
             is_stream == object.kind = "stream"
             ssp == IF is_stream THEN g.ssp ELSE 0
             \* the frames that the loop over the keys pushes
             frame(e) ==
                 IF g.objs[e.value].kind = "null" THEN <<>>
                 ELSE IF is_page_node /\ e.key = "/Thumb"
                 THEN <<[ou |-> ou_thumb(cur.ou.pageno), oh |-> e.value, top |-> FALSE]>>
                 ELSE IF is_page_node /\ e.key = "/Parent" THEN <<>>
                 ELSE IF \/ ssp >= 1 /\ e.key = "/Length"
                         \/ ssp >= 2 /\ e.key \in {"/Filter", "/DecodeParms"}
                 THEN <<>>
                 ELSE <<[ou |-> cur.ou, oh |-> e.value, top |-> FALSE]>>
             pushed[k \in 0..Len(object.entries)] ==
                 IF k = 0 THEN popped ELSE pushed[k - 1] \o frame(object.entries[k])
         IN  IF is_page_node /\ ~cur.top
             THEN updateObjectMaps(g, popped, visited, users)
             ELSE IF cur.oh \in visited
             THEN updateObjectMaps(g, popped, visited, users)
             ELSE updateObjectMaps(
                      g,
                      IF object.kind \in {"dictionary", "page", "stream"}
                      THEN pushed[Len(object.entries)] ELSE popped,
                      visited \cup {cur.oh},
                      [users EXCEPT ![cur.oh] = @ \cup {cur.ou}])

\* Lin::filterCompressedObjects(std::map<int, int> const&): a user of a
\* compressed object is a user of the object stream that contains it
filterCompressedObjects(g, users) ==
    IF \A og \in LinObjs : g.object_stream_data[og] = 0 THEN users
    ELSE [og \in LinObjs |->
             UNION {users[o] : o \in {x \in LinObjs :
                                          IF g.object_stream_data[x] = 0
                                          THEN x = og
                                          ELSE g.object_stream_data[x] = og}}]

\* the documents given to optimize: a catalog with /Pages and perhaps
\* /OpenAction, the pages tree, one or two pages with /Parent and perhaps
\* /Resources, /Thumb and /Trans, and two more objects that may refer to
\* each other, to themselves and to a page
MapGraphs ==
    LET X == FreeObjs
        none == [kind |-> "null", entries |-> <<>>]
        entry(key, value) == IF value = 0 THEN <<>> ELSE <<[key |-> key, value |-> value]>>
        page(res, th, tr) ==
            [kind |-> "page",
             entries |-> entry("/Parent", PagesObj) \o entry("/Resources", res)
                         \o entry("/Thumb", th) \o entry("/Trans", tr)]
        graph(np, oa, info, p0, p1, a, b, kind, ssp, osd) ==
            [npages |-> np,
             objs |-> [og \in LinObjs |->
                          IF og = RootObj
                          THEN [kind |-> "dictionary",
                                entries |-> entry("/OpenAction", oa)
                                            \o entry("/Pages", PagesObj)]
                          ELSE IF og = PagesObj
                          THEN [kind |-> "dictionary",
                                entries |-> [k \in 1..np |->
                                                [key |-> "/Kids", value |-> PageObj(k - 1)]]]
                          ELSE IF og = PageObj(0) THEN p0
                          ELSE IF og = PageObj(1) /\ np = 2 THEN p1
                          ELSE IF og = 6
                          THEN [kind |-> "dictionary", entries |-> entry("/A", a)]
                          ELSE IF og = 7
                          THEN [kind |-> kind,
                                entries |-> entry("/B", b)
                                            \o (IF kind = "stream"
                                                THEN entry("/Length", 6) ELSE <<>>)]
                          ELSE IF og = 5 /\ osd # 0
                          THEN [kind |-> "stream", entries |-> <<>>]
                          ELSE none],
             trailer |-> entry("/Info", info),
             ssp |-> ssp,
             object_stream_data |-> [og \in LinObjs |-> IF og = 6 THEN osd ELSE 0]]
    IN  {graph(np, oa, info, page(res, th, tr), page(res1, 0, 0), a, b, kind, ssp, osd) :
            np \in 1..2, oa \in {0, 6}, info \in {0, 7},
            res \in {0, 6, 7}, th \in {0, 6, 7}, tr \in {0, 6},
            res1 \in {0, 6}, a \in {0, 6, 7, PageObj(0), PageObj(1)},
            b \in {0, 6}, kind \in {"dictionary", "stream"}, ssp \in {0, 1}, osd \in {0, 5}}

\* Lin::optimize_internal
optimize_internal ==
    LET g == heap
        frame(ou, oh) == <<[ou |-> ou, oh |-> oh, top |-> TRUE]>>
        \* "Traverse pages"
        pages[n \in 0..g.npages] ==
            IF n = 0 THEN [og \in LinObjs |-> {}]
            ELSE updateObjectMaps(g, frame(ou_page(n - 1), PageObj(n - 1)), {}, pages[n - 1])
        \* "Traverse document-level items"
        trailer[k \in 0..Len(g.trailer)] ==
            IF k = 0 THEN pages[g.npages]
            ELSE updateObjectMaps(
                     g, frame(ou_trailer_key(g.trailer[k].key), g.trailer[k].value),
                     {}, trailer[k - 1])
        root == g.objs[RootObj].entries
        keys[k \in 0..Len(root)] ==
            IF k = 0 THEN trailer[Len(g.trailer)]
            ELSE updateObjectMaps(
                     g, frame(ou_root_key(root[k].key), root[k].value), {}, keys[k - 1])
        users == [keys[Len(root)] EXCEPT ![RootObj] = @ \cup {ou_root}]
    IN  /\ lin_pc = "idle"
        /\ object_to_obj_users_' = filterCompressedObjects(g, users)
        /\ lin_pc' = "optimized"
        /\ lin_doc' = [lin_doc EXCEPT !.npages = g.npages]
        /\ UNCHANGED <<lin_parts, page_offset_hints_>>
        /\ UNCHANGED <<stackVars, jobVars, cfgVars, writerVars, envVars, unparseVars>>

MapsInit ==
    /\ StackConstructed
    /\ JobConstructed
    /\ CfgConstructed
    /\ LinConstructed
    /\ qpdf = PlainDocument
    /\ WriterConstructed
    /\ env = [time |-> 1, filename |-> "a.pdf"]
    /\ heap \in MapGraphs
    /\ emitted = {}
    /\ pipe = <<>>

MapsNext == optimize_internal

SpecMaps == MapsInit /\ [][MapsNext]_vars

----------------------------------------------------------------------------
(***************************************************************************)
(* will_filter_stream under every compress_streams, decode_level and       *)
(* normalize_content, for the streams of InputGraphs.                      *)
(***************************************************************************)
\* QPDFWriter::setContentNormalization
setContentNormalization(val) ==
    /\ ~cfg.threw
    /\ cfg' = normalize_content(cfg, val)
    /\ UNCHANGED <<stackVars, jobVars, linVars, writerVars, envVars, unparseVars>>

FilterInit ==
    /\ StackConstructed
    /\ JobConstructed
    /\ CfgConstructed
    /\ LinConstructed
    /\ qpdf = PlainDocument
    /\ WriterConstructed
    /\ env = [time |-> 1, filename |-> "a.pdf"]
    /\ heap \in {g \in InputGraphs :
                    /\ g.root.Extensions = "none"
                    /\ g.sig.Type = "/Sig" /\ g.sig.ByteRange
                    /\ g.sig.Contents = "direct"
                    /\ Len(g.filter) <= 1}
    /\ emitted = [object |-> "none"]
    /\ pipe = NothingPiped

FilterNext ==
    \/ \E val \in BOOLEAN : w_pc = "config" /\ setCompressStreams(val)
    \/ \E i \in DOMAIN DecodeLevels : w_pc = "config" /\ setDecodeLevel(DecodeLevels[i])
    \/ \E val \in BOOLEAN : w_pc = "config" /\ setContentNormalization(val)
    \/ write
    \/ \E s \in [is_root_metadata : BOOLEAN, encrypt_metadata : {TRUE},
                 normalized : BOOLEAN, size : {0, 5}],
          o1, o2 \in {"true", "false", "throw"} : unparseObject_stream(s, o1, o2)

SpecFilter == FilterInit /\ [][FilterNext]_vars

----------------------------------------------------------------------------
(***************************************************************************)
(* impl::Writer::writeLinearized with cross-reference streams              *)
(* (need_xref_stream): both passes, the padding reserved in pass 1 and its *)
(* use in pass 2.  The objects of parts 4 to 9 are taken by their bytes.   *)
(***************************************************************************)
\* impl::Writer::writeLinearized when need_xref_stream: pass 1 and pass 2.
\* deflate1 and deflate2 are what Pl_Flate does to the first-half and to the
\* main cross-reference stream in pass 2
writeLinearized_need_xref_stream(deflate1, deflate2) ==
    LET e == IF m.encryption.V # 0 THEN 1 ELSE 0
        second_half_xref == 2
        second_half_end == 2
        second_trailer_size == 3
        lindict_id == 3
        first_half_start == 3
        first_half_xref == 4
        hint_id == 6 + e
        first_half_end == 8 + e
        first_trailer_size == 9 + e
        \* the bytes of parts 4 to 6 and of parts 7 to 9
        first_half == 120
        second_half == 80
        calculateXrefStreamPadding(xref_bytes) == 16 + 5 * ((xref_bytes + 16383) \div 16384)
        \* write() ends in pass p with the members w
        leave(p, w, xref_end, endpos) ==
            /\ m' = w
            /\ w_pc' = Step(w, "done")
            /\ locals' = [locals EXCEPT !.pass = p, !.xref_end = xref_end,
                                        !.endpos = endpos,
                                        !.first_trailer_size = first_trailer_size,
                                        !.second_trailer_size = second_trailer_size]
            /\ out' = [out EXCEPT !.bytes[2] = IF p = 2 THEN w.count ELSE 0]
        \* part 11 after the main cross-reference stream x, begun at pos; s
        \* holds what pass 1 left
        main(p, s, pos, x, Pass2(_)) ==
            LET endpos == x.count
                padding == s.second_xref_end + s.hint_length - 1 - endpos
                startxref == Len("startxref\n") + Digits(s.first_xref_offset)
                             + Len("\n%%EOF\n")
                hinted(w, h) ==
                    Pass2([s EXCEPT !.second_xref_end = w.count - startxref,
                                    !.file_size = w.count,
                                    !.hint_length = h.count])
            IN  IF x.err # "" THEN leave(p, x, 0, 0)
                ELSE IF p = 1
                THEN hinted(Write(x, calculateXrefStreamPadding(endpos - pos)
                                     + Len("\n") + startxref),
                            writeHintStream(cfg, [x EXCEPT !.count = 0], hint_id))
                ELSE IF padding < 0
                THEN leave(p, Throw(x, "range_error: QIntC::to_size"),
                           s.second_xref_end + s.hint_length - 1, endpos)
                ELSE IF endpos + padding + Len("\n") # s.second_xref_end + s.hint_length
                THEN leave(p, Throw(Write(x, padding + Len("\n")),
                                    "logic_error: count mismatch after xref stream; possible insufficient padding?"),
                           s.second_xref_end + s.hint_length - 1, endpos)
                ELSE leave(p, Write(x, padding + Len("\n") + startxref), 0, 0)
        \* parts 4 to 9 and the main cross-reference stream, from w on
        objects(p, s, w, Pass2(_)) ==
            LET w1 == Write(w, Len("\n") + first_half
                               + (IF p = 2 THEN s.hint_length ELSE 0) + second_half)
            IN  main(p, [s EXCEPT !.second_xref_offset = w1.count,
                                  !.first_half_max_obj_offset = w.count + first_half - 40],
                     w1.count,
                     writeXRefStream(cfg, w1, second_half_xref, second_half_end,
                                     w1.count, "t_lin_second", 0, second_half_end,
                                     second_trailer_size, 0, 0, p = 1, p, deflate2),
                     Pass2)
        \* part 3 after the first-half cross-reference stream x, begun at pos
        first(p, s, pos, x, Pass2(_)) ==
            LET endpos == x.count
            IN  IF x.err # "" THEN leave(p, x, 0, 0)
                ELSE IF p = 1
                THEN objects(p, [s EXCEPT !.first_xref_end =
                                    endpos + calculateXrefStreamPadding(endpos - pos)],
                             Write(x, calculateXrefStreamPadding(endpos - pos)), Pass2)
                ELSE IF s.first_xref_end - endpos < 0
                THEN leave(p, Throw(x, "range_error: QIntC::to_size"),
                           s.first_xref_end, endpos)
                ELSE IF endpos + (s.first_xref_end - endpos) # s.first_xref_end
                THEN leave(p, Throw(Write(x, s.first_xref_end - endpos),
                                    "logic_error: insufficient padding for first pass xref stream"),
                           s.first_xref_end, endpos)
                ELSE objects(p, s, Write(x, s.first_xref_end - endpos), Pass2)
        \* parts 1 to 3: the header, the linearization parameter dictionary
        \* padded to 200 bytes, the first-half cross-reference stream
        padded(p, s, w, Pass2(_)) ==
            first(p, [s EXCEPT !.first_xref_offset = w.count], w.count,
                  writeXRefStream(cfg, w, first_half_xref, first_half_end,
                                  IF p = 1 THEN 33554432 ELSE s.first_half_max_obj_offset,
                                  "t_lin_first", first_half_start, first_half_end,
                                  first_trailer_size,
                                  s.hint_length + s.second_xref_offset,
                                  s.hint_length, p = 1, p, deflate1),
                  Pass2)
        begin(p, s, w, Pass2(_)) ==
            padded(p, s, Write(openObject(w, lindict_id).m,
                               w.count + pad - openObject(w, lindict_id).m.count + Len("\n")),
                   Pass2)
        nothing(s) == FALSE
        pass2(s) == begin(2, s, writeHeader([m EXCEPT !.count = 0]), nothing)
    IN  /\ w_pc = "writeLinearized"
        /\ ~m.streams_empty
        /\ begin(1, [first_xref_end |-> 0, second_xref_end |-> 0, second_xref_offset |-> 0,
                     first_xref_offset |-> 0, first_half_max_obj_offset |-> 0,
                     file_size |-> 0, hint_length |-> 0],
                 writeHeader(m), pass2)
        /\ UNCHANGED <<cfg, qpdf, linVars, stackVars, jobVars, envVars, unparseVars>>

\* documents with an object stream, with and without an /ID of two bytes
PadInit ==
    /\ StackConstructed
    /\ JobConstructed
    /\ CfgConstructed
    /\ LinConstructed
    /\ qpdf \in ObjStmDocs \cup {[d EXCEPT !.has_id = TRUE, !.id0 = Str("in", 2)] :
                                     d \in ObjStmDocs}
    /\ WriterConstructed
    /\ env = [time |-> 1, filename |-> "a.pdf"]
    /\ NothingUnparsed

PadNext ==
    \/ \E mode \in {"qpdf_o_disable", "qpdf_o_preserve", "qpdf_o_generate"} :
           setObjectStreamMode(mode)
    \/ \E val \in BOOLEAN : w_pc = "config" /\ setLinearization(val)
    \/ \E use_aes \in BOOLEAN : setR4EncryptionParametersInsecure(use_aes)
    \/ \E q \in OtherDocs : QPDFWriter_copyEncryptionParameters(q)
    \/ write
    \/ \E deflate1, deflate2 \in {-10, 0, 11} :
           writeLinearized_need_xref_stream(deflate1, deflate2)

SpecPad == PadInit /\ [][PadNext]_vars

----------------------------------------------------------------------------
(***************************************************************************)
(* write() of a plain document under a forced version, after any of the    *)
(* calls that install encryption parameters.                               *)
(***************************************************************************)
ForcedInit ==
    /\ StackConstructed
    /\ JobConstructed
    /\ CfgConstructed
    /\ LinConstructed
    /\ qpdf = PlainDocument
    /\ WriterConstructed
    /\ env = [time |-> 1, filename |-> "a.pdf"]
    /\ NothingUnparsed

ForcedNext ==
    \/ setR2EncryptionParametersInsecure
    \/ \E use_aes \in BOOLEAN : setR4EncryptionParametersInsecure(use_aes)
    \/ setR6EncryptionParameters
    \/ \E q \in OtherDocs : QPDFWriter_copyEncryptionParameters(q)
    \/ \E version \in {<<"1", ".", "2">>, <<"1", ".", "3">>, <<"1", ".", "4">>,
                        <<"1", ".", "5">>, <<"1", ".", "6">>, <<"1", ".", "7">>,
                        <<"2", ".", "0">>, <<"1", ".", "1", "0">>},
          extension_level \in {0, 3} :
           forcePDFVersion(version, extension_level)
    \/ write

SpecForced == ForcedInit /\ [][ForcedNext]_vars

----------------------------------------------------------------------------
(***************************************************************************)
(* The calls that install an encryption state, in any order, and a         *)
(* Standard write after them.                                              *)
(***************************************************************************)
\* the documents handed to copyEncryptionParameters: not encrypted, and
\* encrypted with V = 2, V = 4 and V = 5
EncryptedDocs ==
    OtherDocs
    \cup {Document(1, TRUE, Str("other", 20), [V |-> 4, R |-> 4, Length |-> 128], 0, FALSE),
          Document(1, TRUE, Str("other", 20), [V |-> 5, R |-> 6, Length |-> 256], 0, FALSE)}

EncryptInit ==
    /\ StackConstructed
    /\ JobConstructed
    /\ CfgConstructed
    /\ LinConstructed
    /\ qpdf \in {PlainDocument, Document(2, TRUE, Str("in", 16), NoEncrypt, 0, FALSE)}
    /\ WriterConstructed
    /\ env = [time |-> 1, filename |-> "a.pdf"]
    /\ NothingUnparsed

EncryptNext ==
    \/ setR2EncryptionParametersInsecure
    \/ setR3EncryptionParametersInsecure
    \/ \E use_aes \in BOOLEAN : setR4EncryptionParametersInsecure(use_aes)
    \/ setR5EncryptionParameters
    \/ setR6EncryptionParameters
    \/ \E q \in EncryptedDocs : QPDFWriter_copyEncryptionParameters(q)
    \/ write
    \/ writeStandard_begin
    \/ writeStandard_object
    \/ writeStandard_end

SpecEncrypt == EncryptInit /\ [][EncryptNext]_vars

----------------------------------------------------------------------------
(***************************************************************************)
(* Every form of write(): not linearized and linearized, with              *)
(* cross-reference tables and with cross-reference streams.                *)
(***************************************************************************)
TrailersInit ==
    /\ StackConstructed
    /\ JobConstructed
    /\ CfgConstructed
    /\ LinConstructed
    /\ qpdf \in InputDocs \cup ObjStmDocs
    /\ WriterConstructed
    /\ env = [time |-> 1, filename |-> "a.pdf"]
    /\ NothingUnparsed

TrailersNext ==
    \/ \E val \in BOOLEAN : w_pc = "config" /\ setLinearization(val)
    \/ \E use_aes \in BOOLEAN : setR4EncryptionParametersInsecure(use_aes)
    \/ write
    \/ writeStandard_begin
    \/ writeStandard_object
    \/ writeStandard_end
    \/ writeLinearized_optimize
    \/ writeLinearized_parts
    \/ writeLinearized_first_half
    \/ writeLinearized_object
    \/ writeLinearized_second_half
    \/ \E deflate1, deflate2 \in {-10, 11} :
           writeLinearized_need_xref_stream(deflate1, deflate2)

SpecTrailers == TrailersInit /\ [][TrailersNext]_vars

----------------------------------------------------------------------------
(***************************************************************************)
(* A Standard write with object streams: enqueue, the loop of              *)
(* writeStandard over the queue, writeObject and writeObjectStream.  heap  *)
(* holds the references of the input: refs[og] are the indirect objects    *)
(* that unparseObject of og hands to unparseChild, in order; XRef are the  *)
(* streams of /Type /XRef; trailer are the values of the trimmed trailer,  *)
(* /Root first.  emitted holds what was written: the ids given to          *)
(* openObject or written as members, in order, the references written,    *)
(* the entries of new_obj and the object streams.                          *)
(***************************************************************************)
\* impl::Writer::assignCompressedObjectNumbers with next_objid left as it
\* was
assignCompressedObjectNumbers_SameNext(w, objid) ==
    LET members == w.object_stream_to_objects[objid]
    IN  [w EXCEPT !.renumber =
                     [o \in LinObjs |->
                         IF \E k \in DOMAIN members : members[k].obj = o
                         THEN w.next_objid
                              + (CHOOSE k \in DOMAIN members : members[k].obj = o) - 1
                         ELSE w.renumber[o]]]

\* impl::Writer::assignCompressedObjectNumbers: the members of the object
\* stream objid get the next ids, in the order of the vector
assignCompressedObjectNumbers(w, objid) ==
    LET members == w.object_stream_to_objects[objid]
    IN  [w EXCEPT !.renumber =
                     [o \in LinObjs |->
                         IF \E k \in DOMAIN members : members[k].obj = o
                         THEN w.next_objid
                              + (CHOOSE k \in DOMAIN members : members[k].obj = o) - 1
                         ELSE w.renumber[o]],
                  !.next_objid = @ + Len(members)]

\* impl::Writer::enqueue of the indirect object og
RECURSIVE enqueue(_, _, _, _)
enqueue(c, w, g, og) ==
    LET queued == [w EXCEPT !.object_queue = Append(@, og),
                            !.renumber[og] = w.next_objid,
                            !.next_objid = @ + 1]
    IN  IF c.qdf /\ og \in g.XRef THEN w
        ELSE IF w.renumber[og] # 0 THEN w
        ELSE IF w.object_stream[og] > 0
        THEN enqueue(c, [w EXCEPT !.renumber[og] = -1], g, w.object_stream[og])
        ELSE IF qpdf.xref[og].gen = 0 /\ og \in DOMAIN w.object_stream_to_objects
        THEN IF ~c.linearize THEN assignCompressedObjectNumbers(queued, og) ELSE queued
        ELSE IF ~c.direct_stream_lengths /\ qpdf.xref[og].is_stream
        THEN [queued EXCEPT !.next_objid = @ + 1]
        ELSE queued

\* impl::Writer::writeObjectStreamOffsets with first_obj written in every
\* pair
writeObjectStreamOffsets_SameId(offsets, first_obj) ==
    [k \in DOMAIN offsets |-> [id |-> first_obj, offset |-> offsets[k]]]

\* impl::Writer::writeObjectStreamOffsets: the pairs written
writeObjectStreamOffsets(offsets, first_obj) ==
    [k \in DOMAIN offsets |-> [id |-> first_obj + k - 1, offset |-> offsets[k]]]

\* the inputs: a catalog, a pages tree, a page, the object A (a dictionary,
\* a stream or a stream of /Type /XRef), perhaps the object B, and the
\* object stream ObjStmObj when the cross-reference table says that some
\* of them are in it.  The table may also say that ObjStmObj is itself in
\* an object stream: in the stream T, or in ObjStmObj
QueueInputs ==
    LET A == PageObj(1)
        B == PageObj(2)
        T == ExtraObj
        input(in_stream, kind, b, container) ==
            [qpdf |->
                [PlainDocument EXCEPT
                    !.compressible = in_stream \ (IF kind = "dictionary" THEN {} ELSE {A}),
                    !.xref = [og \in LinObjs |->
                                 IF og \in in_stream
                                 THEN XRefEntry(2, ObjStmObj, 0,
                                                og = A /\ kind # "dictionary")
                                 ELSE IF og \in {RootObj, PagesObj, PageObj(0)}
                                 THEN XRefEntry(1, 0, 0, FALSE)
                                 ELSE IF og = A
                                 THEN XRefEntry(1, 0, 0, kind # "dictionary")
                                 ELSE IF og = B /\ b
                                 THEN XRefEntry(1, 0, 0, FALSE)
                                 ELSE IF og = ObjStmObj /\ in_stream # {}
                                 THEN IF container = 0
                                      THEN XRefEntry(1, 0, 0, TRUE)
                                      ELSE XRefEntry(2, container, 0, FALSE)
                                 ELSE IF og = T /\ in_stream # {} /\ container = T
                                 THEN XRefEntry(1, 0, 0, TRUE)
                                 ELSE XRefEntry(0, 0, 0, FALSE)]],
             heap |->
                [refs |-> [og \in LinObjs |->
                              IF og = RootObj
                              THEN <<PagesObj, A>> \o (IF b THEN <<B>> ELSE <<>>)
                              ELSE IF og = PagesObj THEN <<PageObj(0)>>
                              ELSE IF og = PageObj(0) THEN <<PagesObj, A>>
                              ELSE IF og = B /\ b THEN <<A>>
                              ELSE <<>>],
                 XRef |-> IF kind = "XRef" THEN {A} ELSE {},
                 trailer |-> <<RootObj>>]]
    IN  {input(in_stream, kind, b, container) :
            in_stream \in SUBSET {PageObj(0), A},
            kind \in {"dictionary", "stream", "XRef"},
            b \in BOOLEAN,
            container \in {0, T, ObjStmObj}}
        \cup {input(in_stream \cup {B}, "dictionary", TRUE, container) :
                 in_stream \in SUBSET {PageObj(0), A},
                 container \in {0, T, ObjStmObj}}

\* impl::Writer::writeStandard, up to the loop: writeHeader and
\* enqueueObjectsStandard
writeStandard_enqueueObjectsStandard ==
    LET getAllObjects == SetToSeq({og \in LinObjs : qpdf.xref[og].type # 0})
        handles == (IF cfg.preserve_unreferenced THEN getAllObjects ELSE <<>>)
                   \o <<heap.trailer[1]>> \o heap.trailer
        queue[k \in 0..Len(handles)] ==
            IF k = 0 THEN writeHeader(m)
            ELSE enqueue(cfg, queue[k - 1], heap, handles[k])
    IN  /\ w_pc = "writeStandard"
        /\ m' = queue[Len(handles)]
        /\ w_pc' = "queue"
        /\ emitted' = [written |-> <<>>, refs |-> {},
                       new_obj |-> [i \in ObjIds |-> [type |-> 0]],
                       ostreams |-> {}]
        /\ UNCHANGED <<cfg, qpdf, locals, out, heap, pipe, linVars, stackVars, jobVars, envVars>>

\* impl::Writer::writeStandard, one turn of the loop over the queue:
\* writeObject(cur_object), which is writeObjectStream for an object stream
writeStandard_writeObject ==
    LET cur_object == m.object_queue[m.object_queue_front + 1]
        w0 == [m EXCEPT !.object_queue_front = @ + 1]
        \* unparseObject(og): unparseChild of each reference enqueues it and
        \* writes its renumber
        unparse(w, og) ==
            LET children == heap.refs[og]
                child[k \in 0..Len(children)] ==
                    IF k = 0 THEN [w |-> w, refs |-> {}]
                    ELSE LET w1 == enqueue(cfg, child[k - 1].w, heap, children[k])
                         IN  [w |-> w1,
                              refs |-> child[k - 1].refs
                                       \cup {[og |-> children[k],
                                              id |-> w1.renumber[children[k]]]}]
            IN  [w |-> child[Len(children)].w, refs |-> child[Len(children)].refs,
                 bytes |-> unparseObject(og)]
        opened(e, id) ==
            [e EXCEPT !.written = Append(@, id), !.new_obj[id] = [type |-> 1]]
        \* the object with its own "obj" and "endobj", and the object that
        \* holds the /Length of a stream
        plain(w, u, new_id) ==
            LET w1 == closeObject([Write(u.w, u.bytes) EXCEPT !.cur_data_key = 0])
                length == ~cfg.direct_stream_lengths /\ qpdf.xref[cur_object].is_stream
            IN  /\ m' = IF length
                        THEN closeObject(Write(openObject(w1, new_id + 1).m, Digits(40)))
                        ELSE w1
                /\ emitted' = [(IF length THEN opened(opened(emitted, new_id), new_id + 1)
                                ELSE opened(emitted, new_id))
                                  EXCEPT !.refs = @ \cup u.refs]
        \* writeObjectStream: pass 1 writes the members into a buffer
        objects == m.object_stream_to_objects[cur_object]
        new_stream_id == m.renumber[cur_object]
        pass1[k \in 0..Len(objects)] ==
            IF k = 0
            THEN [w |-> w0, count |-> 0, offsets |-> <<>>, ids |-> <<>>, refs |-> {}]
            ELSE LET p == pass1[k - 1]
                     og == objects[k].obj
                     new_o == p.w.renumber[og]
                     comment == IF cfg.qdf
                                THEN Len("%% Object stream: object ") + Digits(new_o)
                                     + Len(", index ") + Digits(k - 1)
                                     + Len("; original object ID: ") + Digits(og)
                                     + Len("\n")
                                ELSE 0
                     u == IF qpdf.xref[og].is_stream
                          THEN [w |-> p.w, refs |-> {}, bytes |-> Len("null")]
                          ELSE unparse(p.w, og)
                 IN  [w |-> u.w,
                      count |-> p.count + comment + u.bytes + Len("\n"),
                      offsets |-> Append(p.offsets, p.count + comment),
                      ids |-> Append(p.ids, new_o),
                      refs |-> p.refs \cup u.refs]
        ostream(p) ==
            LET first == p.offsets[1]
                offsets == [k \in DOMAIN p.offsets |-> p.offsets[k] - first]
                first_obj == p.ids[1]
                pairs == writeObjectStreamOffsets(offsets, first_obj)
                size[k \in 0..Len(pairs)] ==
                    IF k = 0 THEN 0
                    ELSE size[k - 1] + (IF k = 1 THEN 0 ELSE Len(" "))
                         + Digits(pairs[k].id) + Len(" ") + Digits(pairs[k].offset)
                header == size[Len(pairs)] + Len("\n")
                compressed == cfg.compress_streams /\ ~cfg.qdf
                buffer == header + p.count
                w1 == setDataKey(openObject(p.w, new_stream_id).m, new_stream_id)
                dict == Len("<<") + Len(" /Type /ObjStm") + Len(" /Length ")
                        + Digits(adjustAESStreamLength(cfg, w1, buffer))
                        + (IF compressed THEN Len(" /Filter /FlateDecode") ELSE 0)
                        + Len(" /N ") + Digits(Len(offsets))
                        + Len(" /First ") + Digits(first + header)
                        + Len(" >>\nstream\n")
                w2 == Write(w1, dict + write_encrypted(cfg, w1, buffer) + Len("endstream"))
            IN  /\ m' = closeObject([w2 EXCEPT !.cur_data_key = 0])
                /\ emitted' =
                      [emitted EXCEPT
                          !.written = @ \o p.ids \o <<new_stream_id>>,
                          !.refs = @ \cup p.refs,
                          !.new_obj =
                              [i \in ObjIds |->
                                  IF i = new_stream_id THEN [type |-> 1]
                                  ELSE IF \E k \in DOMAIN p.ids : p.ids[k] = i
                                  THEN [type |-> 2, stream |-> new_stream_id,
                                        index |-> (CHOOSE k \in DOMAIN p.ids :
                                                      /\ p.ids[k] = i
                                                      /\ \A j \in DOMAIN p.ids :
                                                            p.ids[j] = i => j <= k) - 1]
                                  ELSE @[i]],
                          !.ostreams =
                              @ \cup {[stream |-> new_stream_id, old_id |-> cur_object,
                                       pairs |-> pairs, N |-> Len(offsets),
                                       First |-> first + header, header |-> header,
                                       starts |-> p.offsets]}]
        \* the comments of QDF mode before an object
        comments ==
            IF cfg.qdf
            THEN (IF cur_object \in all_pages(qpdf.npages)
                  THEN Len("%% Page ") + Digits(cur_object - PageObj(0) + 1) + Len("\n")
                  ELSE 0)
                 + Len("%% Original object ID: ") + Digits(cur_object) + Len(" 0\n")
            ELSE 0
    IN  /\ w_pc = "queue"
        /\ m.object_queue_front < Len(m.object_queue)
        /\ IF qpdf.xref[cur_object].gen = 0
              /\ cur_object \in DOMAIN m.object_stream_to_objects
           THEN ostream(pass1[Len(objects)])
           ELSE plain(w0,
                      unparse(setDataKey(openObject(Write(w0, comments), m.renumber[cur_object]).m,
                                         m.renumber[cur_object]),
                              cur_object),
                      m.renumber[cur_object])
        /\ UNCHANGED <<cfg, qpdf, w_pc, locals, out, heap, pipe, linVars, stackVars, jobVars, envVars>>

\* impl::Writer::writeStandard, after the loop: the encryption dictionary,
\* the cross-reference table or stream with the trailer, startxref
writeStandard_xref ==
    LET opened(e, id) ==
            [e EXCEPT !.written = Append(@, id), !.new_obj[id] = [type |-> 1]]
        end(w1, x, e) ==
            /\ m' = IF x.err # "" THEN x
                    ELSE Write(x, Len("startxref\n") + Digits(w1.count) + Len("\n%%EOF\n"))
            /\ w_pc' = Step(x, "done")
            /\ emitted' = e
        table(w1, e) ==
            IF w1.object_stream_to_objects = <<>>
            THEN end(w1, writeXRefTable(cfg, w1, "t_normal", 0, w1.next_objid - 1,
                                        w1.next_objid, 0, FALSE, 0, 0, 0, 0).m, e)
            ELSE end(w1, writeXRefStream(cfg, [w1 EXCEPT !.next_objid = @ + 1],
                                         w1.next_objid, w1.next_objid, w1.count,
                                         "t_normal", 0, w1.next_objid, w1.next_objid + 1,
                                         0, 0, FALSE, 0, 0),
                     opened(e, w1.next_objid))
        dictionary(w1) == table(w1, opened(emitted, w1.encryption_dict_objid))
    IN  /\ w_pc = "queue"
        /\ m.object_queue_front = Len(m.object_queue)
        /\ IF m.encryption.V # 0
           THEN dictionary(writeEncryptionDictionary(cfg, m))
           ELSE table(m, emitted)
        /\ UNCHANGED <<cfg, qpdf, locals, out, heap, pipe, linVars, stackVars, jobVars, envVars>>

QueueInit ==
    /\ StackConstructed
    /\ JobConstructed
    /\ CfgConstructed
    /\ LinConstructed
    /\ WriterConstructed
    /\ env = [time |-> 1, filename |-> "a.pdf"]
    /\ \E input \in QueueInputs : qpdf = input.qpdf /\ heap = input.heap
    /\ emitted = {}
    /\ pipe = <<>>

QueueNext ==
    \/ \E val \in BOOLEAN : w_pc = "config" /\ setQDFMode(val)
    \/ \E val \in BOOLEAN : setPreserveUnreferencedObjects(val)
    \/ \E use_aes \in BOOLEAN : setR4EncryptionParametersInsecure(use_aes)
    \/ write
    \/ writeStandard_enqueueObjectsStandard
    \/ writeStandard_writeObject
    \/ writeStandard_xref

SpecQueue == QueueInit /\ [][QueueNext]_vars

\* C1: after a completed write, for every object emitted as an uncompressed
\* indirect object with new id n, the offset of the emitted xref entry n
\* (with the hint_length adjustment of the first-half table) is the byte
\* count of the output at which "n 0 obj" of that object begins.
C1_XrefOffsetsPointAtObjects ==
    w_pc = "done" =>
        \A n \in ObjIds : out.obj_begin[n] # -1 => out.xref[n] = out.obj_begin[n]

\* C2: after a completed linearized write, the /L written in pass 2
\* (file_size of pass 1 plus hint_length) is the number of bytes emitted in
\* pass 2, and the count of pass 2 at the startxref that ends the file is
\* the count of pass 1 at that point plus hint_length.
C2_LinearizedByteCountsStable ==
    (w_pc = "done" /\ cfg.linearize) =>
        /\ out.L = locals.file_size + locals.hint_length
        /\ out.L = out.bytes[2]
        /\ out.startxref[2] = out.startxref[1] + locals.hint_length

C9_FirstIdIsInputId ==
    w_pc = "done" =>
        out.id[1] = IF qpdf.has_id THEN qpdf.id0 ELSE out.id[2]

\* C9, amended: in every completed write the first element of the emitted
\* /ID is the /ID[0] of the document whose encryption was copied last (by
\* copyEncryptionParameters, or from the input by preserve_encryption) if
\* there is one; else the input trailer's /ID[0] when the trailer has an /ID
\* with a non-empty first element; else the second element.
C9_FirstIdCopiedOrInputOrSecond ==
    w_pc = "done" =>
        out.id[1] = IF m.copied THEN m.copied_id0
                    ELSE IF qpdf.has_id /\ qpdf.id0 # EmptyStr THEN qpdf.id0
                    ELSE out.id[2]

\* a write completed after the encryption of another document was copied:
\* the input has its own /ID and the emitted /ID[0] is the other document's
C9_Witness ==
    /\ w_pc = "done"
    /\ m.copied
    /\ qpdf.has_id /\ qpdf.id0 = Str("input", 16)
    /\ out.id[1] = Str("other", 20)
    /\ out.id[2] = Md5(Seed(FALSE, EmptyStr))

\* C10 as stated: with static_id set, both elements of the emitted /ID are
\* the fixed constant, for every input.
C10_StaticIdBothConstant ==
    (w_pc = "done" /\ cfg.static_id) => out.id = <<StaticId, StaticId>>

\* C10, amended: when static_id was set at the time the ID was generated
\* (the first install or copy of encryption parameters, else the trailer),
\* the second element of the emitted /ID is the constant of 16 bytes; the
\* first element is the /ID[0] kept from the copied or the input document,
\* and the constant only when there is none.
C10_StaticIdSecondConstant ==
    (w_pc = "done" /\ m.generated_static) =>
        /\ out.id[2] = StaticId
        /\ StaticId.len = 16
        /\ out.id[1] = IF m.copied THEN m.copied_id0
                       ELSE IF qpdf.has_id /\ qpdf.id0 # EmptyStr THEN qpdf.id0
                       ELSE StaticId

\* a write with static_id completed on an input that carries an /ID: the
\* input's /ID[0] was kept as the first element
C10_Witness ==
    /\ w_pc = "done"
    /\ cfg.static_id /\ m.generated_static
    /\ qpdf.id0 = Str("input", 16)
    /\ out.id = <<Str("input", 16), StaticId>>

\* C7: no object stream that is written has as a member an object written
\* with a generation other than 0, a stream, or the encryption dictionary
\* (a member is the catalog, the pages tree, a page, another dictionary of
\* the document, or null); nor a page dictionary when linearizing; nor the
\* catalog when linearizing or encrypting.
C7_ObjectStreamMembers ==
    \A s \in out.ostreams : \A k \in DOMAIN s.members :
        /\ s.members[k].gen = 0
        /\ s.members[k].written \in
               {"catalog", "pages tree", "page", "dictionary", "null"}
        /\ cfg.linearize => s.members[k].written # "page"
        /\ (cfg.linearize \/ m.encryption.V # 0) =>
               s.members[k].written # "catalog"

\* the object stream of a linearized and encrypted output was written, for
\* an input that keeps its catalog, its page and a stream in an object
\* stream: the one member is the stream, written as null
C7_Witness ==
    /\ cfg.linearize
    /\ m.encryption.V # 0
    /\ qpdf.xref[RootObj].type = 2
    /\ qpdf.xref[PageObj(0)].type = 2
    /\ qpdf.xref[ExtraObj].type = 2 /\ qpdf.xref[ExtraObj].is_stream
    /\ \E s \in out.ostreams :
           /\ s.stream = ObjStmObj
           /\ Len(s.members) = 1
           /\ s.members[1].og.obj = ExtraObj
           /\ s.members[1].written = "null"

\* C11: two Standard writes of the same input with the same configuration
\* and deterministic_id = true emit the same bytes, the /ID array included,
\* whatever the time and the file name of each write.
C11_DeterministicIdStable ==
    (w_pc = "done" /\ earlier.done /\ cfg.deterministic_id /\ cfg = earlier.cfg) =>
        out = earlier.out

\* the second of two writes with deterministic_id and without static_id
\* completed, at another time and for another file than the first, and the
\* /ID it emitted came from the digest of the output
C11_Witness ==
    /\ w_pc = "done" /\ earlier.done
    /\ cfg.deterministic_id /\ ~cfg.static_id /\ cfg = earlier.cfg
    /\ env.time # earlier.env.time
    /\ env.filename # earlier.env.filename
    /\ out.id[2] = Md5(Seed(TRUE, m.deterministic_id_data))
    /\ m.deterministic_id_data # EmptyStr

\* C12: writing never changes the input object graph: after unparsing any
\* object, every dictionary and array of the input, the catalog's direct
\* /Extensions dictionary and a stream dictionary's /Filter and
\* /DecodeParms arrays included, is as it was before.
C12_InputGraphUnchanged == [][heap' = heap]_vars

\* C13: for every stream the writer emits (ordinary stream, object stream,
\* hint stream) the /Length written equals the number of data bytes emitted
\* between "stream" and the end-of-stream terminator, which is
\* in + (16 - in mod 16) + 16 when the data is AES-encrypted and in
\* otherwise; the data is AES-encrypted exactly when encryption is active,
\* the per-object key is not empty and AES is selected.
C13_LengthIsDataWritten ==
    emitted.object \in {"stream", "object stream", "hint stream"} =>
        /\ emitted.Length = emitted.data
        /\ emitted.data =
               IF emitted.encrypted /\ emitted.encrypt_use_aes
               THEN emitted.size + (16 - (emitted.size % 16)) + 16
               ELSE emitted.size

C13_Witness ==
    /\ emitted.object = "stream"
    /\ emitted.encrypted /\ emitted.encrypt_use_aes
    /\ emitted.size = 5
    /\ emitted.Length = 32
    /\ emitted.data = 32

\* C14: with encryption active, the /Contents string of every signature
\* dictionary (/Type /Sig with /ByteRange) is written unencrypted, whether
\* it is a direct string or an indirect string object written on its own.
C14_SigContentsUnencrypted ==
    (/\ emitted.object = "string"
     /\ emitted.owner.Type = "/Sig"
     /\ emitted.owner.ByteRange) => ~emitted.encrypted

\* C16: will_filter_stream makes at most two attempts to pipe the data of a
\* stream.  If the first attempt was made with filtering and throws, warnings
\* are emitted, filtering is disabled for the stream, what was captured is
\* discarded and exactly one raw attempt follows; an attempt made without
\* filtering that throws aborts with an error naming the object; there is
\* never a third attempt.
C16_OneRawRetry ==
    pipe.attempts # <<>> =>
        /\ Len(pipe.attempts) <= 2
        /\ pipe.attempts[1].first_attempt
        /\ (pipe.attempts[1].filter /\ pipe.attempts[1].outcome = "throw") =>
               /\ pipe.warnings >= 1
               /\ ~pipe.filter_on_write
               /\ Len(pipe.attempts) = 2
               /\ ~pipe.attempts[2].filter /\ ~pipe.attempts[2].first_attempt
               /\ pipe.attempts[2].outcome # "throw" =>
                      /\ pipe.error = "" /\ pipe.stream_data = pipe.size
        /\ (\E i \in DOMAIN pipe.attempts :
               ~pipe.attempts[i].filter /\ pipe.attempts[i].outcome = "throw") <=>
               /\ w_pc = "error"
               /\ pipe.error = "error while getting stream data for 4 0 R: pipeStreamData"
        /\ pipe.error = "" => w_pc # "error"

C16_Witness ==
    /\ Len(pipe.attempts) = 2
    /\ pipe.attempts[1].filter /\ pipe.attempts[1].outcome = "throw"
    /\ pipe.attempts[2].outcome = "false"
    /\ pipe.warnings = 2
    /\ pipe.size = 5 /\ pipe.stream_data = 5
    /\ pipe.error = "" /\ ~pipe.filter_on_write

\* C15: in the page-offset hint table computed after pass 1, for every page
\* i the value delta_nobjects[i] + min_nobjects is the number of objects in
\* the span of page i (part 6 for the first page, the page object and what
\* follows it in part 7 up to the next page object for the others), every
\* delta is non-negative, and every shared identifier recorded for a page
\* is less than nshared_total.
C15_PageOffsetHintsConsistent ==
    page_offset_hints_ # NoHints =>
        LET ph == page_offset_hints_
            part7 == lin_parts.part7
            page_objects == {PageObj(i) : i \in 0..(lin_doc.npages - 1)}
            at(i) == CHOOSE k \in DOMAIN part7 : part7[k] = PageObj(i)
            span(i) ==
                IF i = 0 THEN Len(lin_parts.part6)
                ELSE Cardinality({k \in DOMAIN part7 :
                                    /\ k >= at(i)
                                    /\ \A j \in (at(i) + 1)..k : part7[j] \notin page_objects})
        IN  /\ Len(ph.entries) = lin_doc.npages
            /\ \A i \in 0..(lin_doc.npages - 1) :
                   /\ ph.entries[i + 1].delta_nobjects + ph.min_nobjects = span(i)
                   /\ ph.entries[i + 1].delta_nobjects >= 0
                   /\ ph.entries[i + 1].delta_page_length >= 0
                   /\ \A k \in DOMAIN ph.entries[i + 1].shared_identifiers :
                          /\ ph.entries[i + 1].shared_identifiers[k] >= 0
                          /\ ph.entries[i + 1].shared_identifiers[k]
                                 < lin_parts.c_shared_object_data_.nshared_total

C15_Witness ==
    /\ page_offset_hints_ # NoHints
    /\ lin_doc.npages = 3
    /\ page_offset_hints_.min_nobjects = 1
    /\ page_offset_hints_.entries[2].delta_nobjects = 1
    /\ page_offset_hints_.entries[3].delta_nobjects = 0
    /\ page_offset_hints_.entries[3].shared_identifiers # <<>>
    /\ page_offset_hints_.entries[2].delta_page_length > 0

\* C17: when a linearized write fails because the first-half or the main
\* cross-reference stream of pass 2 does not end within the bytes reserved
\* for it in pass 1, the failure is a logic error with an
\* insufficient-padding message and no byte has been written to the output.
C17_PaddingMismatchIsLogicError ==
    (w_pc = "error" /\ locals.pass = 2 /\ locals.endpos > locals.xref_end) =>
        /\ m.err \in {"logic_error: insufficient padding for first pass xref stream",
                      "logic_error: count mismatch after xref stream; possible insufficient padding?"}
        /\ out.bytes[2] = 0

\* C18: for every forced version and every encryption state (V, R,
\* encrypt_use_aes) the writer's calls can leave, the setup of write() drops
\* the encryption exactly when a row of the table applies: version < 1.3;
\* version < 1.4 and (V > 1 or R > 2); version < 1.5 and (V > 2 or R > 3);
\* version < 1.6 and AES in use; version < 1.7 extension 3 and (V >= 5 or
\* R >= 5).
C18_DropsExactlyByTable ==
    [][(/\ w_pc = "config"
        /\ w_pc' \in {"writeStandard", "writeLinearized"}
        /\ cfg.forced_pdf_version # <<>>
        /\ m.encryption # NoEncryption)
       => LET v == parseVersion(cfg.forced_pdf_version)
              below(major, minor) == compareVersions(v.major, v.minor, major, minor) < 0
              V == m.encryption.V
              R == m.encryption.R
              row == \/ below(1, 3)
                     \/ below(1, 4) /\ (V > 1 \/ R > 2)
                     \/ below(1, 5) /\ (V > 2 \/ R > 3)
                     \/ below(1, 6) /\ cfg.encrypt_use_aes
                     \/ /\ \/ below(1, 7)
                            \/ (compareVersions(v.major, v.minor, 1, 7) = 0
                                /\ cfg.forced_extension_level < 3)
                        /\ (V >= 5 \/ R >= 5)
          IN  (m'.encryption = NoEncryption) <=> row]_vars

\* C19 as stated: every trailer dictionary the writer emits (normal,
\* linearized first-page, linearized main; in a cross-reference table or a
\* cross-reference stream) contains /Root, /Size equal to the size passed
\* for that section and an /ID array of two strings, and /Encrypt is added
\* to the trailers that are not in a cross-reference stream when encryption
\* is active.
C19_EveryTrailerHasRoot ==
    \A t \in m.trailers :
        /\ "/Root" \in t.keys
        /\ "/Size" \in t.keys
        /\ "/ID" \in t.keys /\ t.ID = 2
        /\ (~t.xref_stream /\ t.encrypted) => "/Encrypt" \in t.keys

\* C19, amended: every trailer dictionary the writer emits contains /Size,
\* equal to the size passed for that section (the number of objects of the
\* file and one for a normal and a first-page trailer, of the second half
\* and one for the main trailer of a linearized file), and an /ID array of
\* two strings; /Root is in every trailer but the main trailer of a
\* linearized file; /Encrypt is in a trailer exactly when encryption is
\* active and the trailer is not the main trailer of a linearized file,
\* in a cross-reference table and in a cross-reference stream alike.
C19_TrailerKeys ==
    \A t \in m.trailers :
        /\ "/Size" \in t.keys
        /\ t.which = "t_normal" => t.Size = m.next_objid
        /\ t.which = "t_lin_first" => t.Size = locals.first_trailer_size
        /\ t.which = "t_lin_second" => t.Size = locals.second_trailer_size
        /\ "/ID" \in t.keys /\ t.ID = 2
        /\ "/Root" \in t.keys <=> t.which # "t_lin_second"
        /\ "/Encrypt" \in t.keys <=> (t.encrypted /\ t.which # "t_lin_second")

\* an encrypted linearized file with cross-reference streams was written:
\* its first-page trailer carries /Encrypt, its main trailer does not
C19_Witness ==
    /\ w_pc = "done"
    /\ \E t \in m.trailers :
           /\ t.which = "t_lin_first" /\ t.xref_stream /\ t.linearization_pass = 2
           /\ "/Encrypt" \in t.keys
    /\ \E t \in m.trailers :
           /\ t.which = "t_lin_second" /\ t.xref_stream /\ t.linearization_pass = 2
           /\ t.encrypted /\ t.keys = {"/Size", "/ID"}

\* C20: qdf(true) sets compress_streams = false and decode_level =
\* generalized only when those options were not explicitly set earlier, and
\* a qdf(true) that returns always leaves direct_stream_lengths = false; the
\* final values of compress_streams and decode_level are the same whichever
\* order qdf(true) and an explicit compress_streams(x), decode_level(y) or
\* stream_data(mode) call are made in.
C20_QdfDefaultsCommute ==
    LET q == qdf(cfg, TRUE)
        same(a, b) == /\ a.compress_streams = b.compress_streams
                      /\ a.decode_level = b.decode_level
        \* the caller goes on after a usage error
        on(c) == [c EXCEPT !.threw = FALSE]
    IN  ~cfg.threw =>
            /\ q.compress_streams # cfg.compress_streams =>
                   (~cfg.compress_streams_set /\ ~q.compress_streams)
            /\ q.decode_level # cfg.decode_level =>
                   (~cfg.decode_level_set /\ q.decode_level = "generalized")
            /\ cfg.compress_streams_set => q.compress_streams = cfg.compress_streams
            /\ cfg.decode_level_set => q.decode_level = cfg.decode_level
            /\ ~q.threw => (q.qdf /\ ~q.direct_stream_lengths)
            /\ \A x \in BOOLEAN :
                   same(compress_streams(on(q), x),
                        qdf(on(compress_streams(cfg, x)), TRUE))
            /\ \A y \in {DecodeLevels[i] : i \in DOMAIN DecodeLevels} :
                   same(decode_level(on(q), y), qdf(on(decode_level(cfg, y)), TRUE))
            /\ \A mode \in {"uncompress", "preserve", "compress"} :
                   same(stream_data(on(q), mode), qdf(on(stream_data(cfg, mode)), TRUE))

\* qdf(true) was called on a Config whose compress_streams and decode_level
\* had been set: both kept their values
C20_Witness ==
    /\ ~cfg.threw
    /\ cfg.qdf /\ ~cfg.direct_stream_lengths
    /\ cfg.compress_streams_set /\ cfg.compress_streams
    /\ cfg.decode_level_set /\ cfg.decode_level = "specialized"

\* C21: in a Standard write, once the object queue is exhausted, every
\* input object that was passed to enqueue and is referenced in the output
\* has renumber > 0 (no reference "-1 0 R" or "0 0 R" was written for it),
\* and for every such object with object_stream > 0 the containing stream is
\* in the queue with its own new id, for every object-stream membership
\* relation, one in which a containing stream is itself marked as a member
\* of an object stream included.
C21_ReferencedObjectsNumbered ==
    (w_pc = "queue" /\ m.object_queue_front = Len(m.object_queue)) =>
        \A r \in emitted.refs :
            /\ r.id > 0
            /\ m.renumber[r.og] > 0
            /\ m.object_stream[r.og] > 0 =>
                   /\ \E k \in DOMAIN m.object_queue :
                          m.object_queue[k] = m.object_stream[r.og]
                   /\ m.renumber[m.object_stream[r.og]] > 0

\* C22: in a Standard write new ids are allocated without collision and
\* without gap: no two emitted objects (queued objects, the objects that
\* hold a /Length, members of object streams, the encryption dictionary,
\* the cross-reference stream) share an id, each queued object is written
\* exactly once, and every id in 1..Size-1 has a cross-reference entry of
\* type 1 or 2.
C22_IdsWithoutCollisionOrGap ==
    (w_pc = "done" /\ m.err = "") =>
        /\ \A j, k \in DOMAIN emitted.written :
              emitted.written[j] = emitted.written[k] => j = k
        /\ \A q \in DOMAIN m.object_queue :
              Cardinality({k \in DOMAIN emitted.written :
                              emitted.written[k] = m.renumber[m.object_queue[q]]}) = 1
        /\ \A t \in m.trailers :
              \A id \in 1..(t.Size - 1) :
                  id \in ObjIds /\ emitted.new_obj[id].type \in {1, 2}

\* a Standard write that ended with an object stream, a stream with its
\* /Length in an object of its own, the encryption dictionary and the
\* cross-reference stream among the objects
C22_Witness ==
    /\ w_pc = "done"
    /\ m.err = ""
    /\ emitted.ostreams # {}
    /\ m.encryption_dict_objid > 0
    /\ ~cfg.direct_stream_lengths
    /\ \E og \in LinObjs :
          /\ qpdf.xref[og].is_stream
          /\ \E k \in DOMAIN m.object_queue : m.object_queue[k] = og
          /\ og \notin DOMAIN m.object_stream_to_objects
    /\ \E t \in m.trailers : t.xref_stream /\ t.Size = Len(emitted.written) + 1

\* C30: for every object stream written, the k-th (id, offset) pair of its
\* header has id = the renumber of the k-th member and offset = the start
\* of that member relative to the start of the first one (the first offset
\* is 0), /N is the number of members, /First is the position of the first
\* member in the stream data, and the cross-reference entry of member k is
\* (type 2, the new id of the stream, k).
C30_ObjectStreamHeader ==
    (w_pc \in {"queue", "done"}) =>
        \A os \in emitted.ostreams :
            LET members == m.object_stream_to_objects[os.old_id]
            IN  /\ os.stream = m.renumber[os.old_id]
                /\ Len(os.pairs) = Len(members)
                /\ os.N = Len(members)
                /\ os.pairs[1].offset = 0
                /\ os.First = os.header + os.starts[1]
                /\ \A k \in DOMAIN members :
                      /\ os.pairs[k].id = m.renumber[members[k].obj]
                      /\ os.pairs[k].offset = os.starts[k] - os.starts[1]
                      /\ emitted.new_obj[m.renumber[members[k].obj]]
                            = [type |-> 2, stream |-> os.stream, index |-> k - 1]

\* an object stream of two members or more was written in QDF mode, where a
\* comment comes before the first member
C30_Witness ==
    /\ w_pc = "done"
    /\ m.err = ""
    /\ cfg.qdf
    /\ \E os \in emitted.ostreams :
          /\ os.N >= 2
          /\ os.starts[1] > 0
          /\ os.pairs[2].offset > 0

\* C23: after any sequence of the setR2 .. setR6 encryption-parameter calls
\* and copyEncryptionParameters on one writer, encrypt_use_aes is true only
\* if the installed encryption state has V >= 4: streams and strings are
\* encrypted with AES only when the encryption dictionary written declares
\* an AES crypt filter.
C23_AESOnlyWithCryptFilter ==
    /\ cfg.encrypt_use_aes => m.encryption.V >= 4
    /\ (w_pc = "done" /\ m.encryption.V # 0 /\ cfg.encrypt_use_aes) =>
           m.cfm \in {"/AESV2", "/AESV3"}

\* C25 as stated: whenever the encryption state of the writer has V >= 4,
\* installed by setR4EncryptionParametersInsecure, setR5EncryptionParameters
\* or setR6EncryptionParameters or copied from an input document,
\* encrypt_use_aes is true and the crypt filter method written to the
\* encryption dictionary is /AESV2 or /AESV3.
C25_V4ForcesAES ==
    m.encryption.V >= 4 =>
        /\ cfg.encrypt_use_aes
        /\ w_pc = "done" => m.cfm \in {"/AESV2", "/AESV3"}

\* C25, amended: an encryption state with V >= 5 has encrypt_use_aes true; a
\* state with V >= 4 and encrypt_use_aes false comes only from
\* setR4EncryptionParametersInsecure with use_aes = false, so every other
\* call that installs V >= 4 (setR4 with use_aes = true, setR5, setR6, a
\* copy) leaves encrypt_use_aes true; and the crypt filter method written
\* is /AESV2 (V = 4) or /AESV3 (V = 5) when encrypt_use_aes is true and /V2
\* when it is false.
C25_V4MethodFollowsUseAES ==
    [][/\ m'.encryption.V >= 5 => cfg'.encrypt_use_aes
       /\ (m'.encryption.V >= 4 /\ ~cfg'.encrypt_use_aes) =>
              \/ setR4EncryptionParametersInsecure(FALSE)
              \/ m.encryption.V >= 4 /\ ~cfg.encrypt_use_aes
       /\ (m'.encryption.V >= 4 /\ w_pc' = "done") =>
              m'.cfm = IF ~cfg'.encrypt_use_aes THEN "/V2"
                       ELSE IF m'.encryption.V = 4 THEN "/AESV2" ELSE "/AESV3"]_vars

\* a Standard write ended with the encryption dictionary of a state with
\* V = 4 copied from another document: encrypt_use_aes is true and /AESV2
\* was written
C25_Witness ==
    /\ w_pc = "done"
    /\ m.err = ""
    /\ m.copied
    /\ m.encryption.V = 4
    /\ cfg.encrypt_use_aes
    /\ m.cfm = "/AESV2"

\* C24: whenever a trailer dictionary is emitted, the per-object data key
\* cur_data_key is empty, in the Standard path and in both passes of a
\* linearized write, for the cross-reference table and the cross-reference
\* stream form, so that direct strings of the trailer are written
\* unencrypted and with the same number of bytes in pass 1 and pass 2.
C24_NoDataKeyInTrailer ==
    \A t \in m.trailers : t.cur_data_key = 0

C27_EmptyStreamUnfiltered ==
    (pipe.attempts # <<>> /\ pipe.size = 0 /\ pipe.error = "") =>
        /\ ~pipe.filter
        /\ ~pipe.compress_stream
        /\ emitted.dict.Filter = heap.stream_dict.Filter

\* C27, amended: for a stream whose dictionary /Length is 0,
\* will_filter_stream disables compression, not filtering: the first attempt
\* is made with filter = true and no encode flags, compressed is false, and
\* did_filter is true exactly when pipeStreamData succeeds on that attempt;
\* the dictionary is then written without /Filter and /DecodeParms, and
\* with them only when the attempt did not filter.
C27_EmptyStreamNotCompressed ==
    (pipe.attempts # <<>> /\ pipe.size = 0) =>
        /\ pipe.attempts[1].filter
        /\ ~pipe.compress_stream
        /\ pipe.error = "" =>
               /\ pipe.filter <=> pipe.attempts[1].outcome = "true"
               /\ ~emitted.FlateDecode
               /\ pipe.filter =>
                      /\ emitted.dict.Filter = "none"
                      /\ emitted.dict.DecodeParms = "none"
               /\ (~pipe.filter /\ heap.stream_dict.Filter = "/FlateDecode") =>
                      emitted.dict.Filter = "/FlateDecode"

\* a /FlateDecode stream of /Length 0 was decoded with compress_streams
\* true and written without /Filter
C27_Witness ==
    /\ pipe.attempts # <<>>
    /\ pipe.size = 0
    /\ pipe.error = ""
    /\ cfg.compress_streams
    /\ heap.stream_dict.Filter = "/FlateDecode"
    /\ pipe.filter
    /\ ~pipe.compress_stream
    /\ emitted.object = "stream"
    /\ emitted.dict.Filter = "none"

\* C28: every classified object other than the catalog whose user set
\* contains a root key in {/ViewerPreferences, /PageMode, /Threads,
\* /OpenAction, /AcroForm} or the trailer key /Encrypt is placed in part 4,
\* whatever other users (pages, thumbnails, /Outlines, other keys) it also
\* has; the outlines rule applies only to objects whose user set has no such
\* open-document user.
C28_OpenDocumentInPart4 ==
    lin_pc = "done" =>
        \A og \in LinKeys :
            LET ous == object_to_obj_users_[og]
            IN  /\ (~is_root(ous) /\ in_open_document(ous)) =>
                       \E k \in DOMAIN lin_parts.part4 : lin_parts.part4[k] = og
                /\ Classify(ous) = "lc_outlines" => ~in_open_document(ous)

\* C29: after the object-user maps are built, for every page i and every
\* indirect object X reachable from the dictionary of page i through keys
\* other than /Parent and /Thumb (without entering another /Page dictionary
\* or a skipped stream parameter), the user set of X, or of the object
\* stream that contains X, includes page(i), also when X is reachable
\* through the /Thumb of that page as well; the traversal terminates on
\* cyclic graphs.
C29_PageUsersComplete ==
    lin_pc = "optimized" =>
        \A i \in 0..(heap.npages - 1) :
            LET followed(og) ==
                    {e.value : e \in
                        {heap.objs[og].entries[k] : k \in DOMAIN heap.objs[og].entries}
                        \ {e \in {heap.objs[og].entries[k] :
                                      k \in DOMAIN heap.objs[og].entries} :
                              \/ og = PageObj(i) /\ e.key \in {"/Parent", "/Thumb"}
                              \/ /\ heap.objs[og].kind = "stream"
                                 /\ heap.ssp >= 1 /\ e.key = "/Length"}}
                reach[n \in 0..Cardinality(LinObjs)] ==
                    IF n = 0 THEN {PageObj(i)}
                    ELSE reach[n - 1]
                         \cup {x \in UNION {followed(og) : og \in reach[n - 1]} :
                                  heap.objs[x].kind \notin {"page", "null"}}
                container(x) == IF heap.object_stream_data[x] = 0 THEN x
                                ELSE heap.object_stream_data[x]
            IN  \A x \in reach[Cardinality(LinObjs)] :
                    ou_page(i) \in object_to_obj_users_[container(x)]

====
